---- MODULE Spec2Model ----
(***************************************************************************)
(* Model of the evernode client library.                                   *)
(*                                                                         *)
(* TenantClient.watchAcquireResponse / watchExtendResponse                 *)
(* (src/src/clients/tenant-client.js) are modelled as one state machine.   *)
(* Each action is the code that runs between two suspension points         *)
(* (await) of the async executor, or a timer callback.  The deadline       *)
(* timer callback may run whenever the executor is suspended.              *)
(***************************************************************************)
EXTENDS Integers, Sequences, FiniteSets, TLC

\* ------------------------------------------------------------------------
\* Bounds of the model.
\* ------------------------------------------------------------------------

\* Longest transaction list one getAccountTrx call returns.
MaxTx == 2

\* The poll counter saturates at this value ("MaxPolls or more").
MaxPolls == 3

\* ------------------------------------------------------------------------
\* Program constants and value universes.
\* ------------------------------------------------------------------------

DEFAULT_WAIT_TIMEOUT == 60000

\* JavaScript undefined / null.
UNDEF == "undefined"

\* ErrorReasons.TIMEOUT and ErrorCodes.ACQUIRE_ERR / EXTEND_ERR.
TIMEOUT == "TIMEOUT"
ACQUIRE_ERR == "ACQUIRE_ERR"
EXTEND_ERR == "EXTEND_ERR"

\* The two watch methods.
WatchKinds == {"acquire", "extend"}

\* Transaction hashes (tx.id) and their use as reference ids in events.
TxIds == {"T1", "T2"}

\* options.timeout values handed to a watch call (0 stands for "not given").
TimeoutOptions == {0, 500}

\* Distinguishes the payloads of two events of the same name and reference.
Vals == {"1", "2"}

\* Errors a rejected getAccountTrx may carry.
QueryErrors == {"QUERY_FAILED"}

\* TenantEvents, plus the two request events, which carry the same
\* reference field as their responses.
AcquireSuccess == "AcquireSuccess"
AcquireError == "AcquireError"
ExtendSuccess == "ExtendSuccess"
ExtendError == "ExtendError"
AcquireLease == "AcquireLease"
ExtendLease == "ExtendLease"

AcquireNames == {AcquireLease, AcquireSuccess, AcquireError}
ExtendNames == {ExtendLease, ExtendSuccess, ExtendError}

\* The result of extractEvernodeEvent for a transaction that holds no event.
NullEvent ==
    [name |-> UNDEF,
     data |-> [transaction |-> UNDEF, acquireRefId |-> UNDEF, extendRefId |-> UNDEF,
               payload |-> [content |-> UNDEF], expiryMoment |-> UNDEF, reason |-> UNDEF]]

\* An event as the watch methods read it: res.name, res.data.acquireRefId,
\* res.data.extendRefId, res.data.transaction, res.data.payload.content,
\* res.data.expiryMoment, res.data.reason.
Event(n, ref, v) ==
    [name |-> n,
     data |-> [transaction |-> "txn" \o v,
               acquireRefId |-> IF n \in AcquireNames THEN ref ELSE UNDEF,
               extendRefId |-> IF n \in ExtendNames THEN ref ELSE UNDEF,
               payload |-> [content |-> IF n = AcquireSuccess THEN "content" \o v ELSE UNDEF],
               expiryMoment |-> IF n = ExtendSuccess THEN "expiry" \o v ELSE UNDEF,
               reason |-> IF n \in {AcquireError, ExtendError} THEN "reason" \o v ELSE UNDEF]]

Events ==
    {NullEvent} \cup {Event(n, ref, v) : n \in AcquireNames \cup ExtendNames, ref \in TxIds, v \in Vals}

\* ------------------------------------------------------------------------
\* State.
\* ------------------------------------------------------------------------

VARIABLES
    pc,            \* position of the async executor
    kind,          \* which watch method runs
    tx,            \* the tx argument (its id)
    failTimeout,   \* the deadline timer: [state, delay]
    rejected,      \* let rejected
    relevantTx,    \* let relevantTx
    txLen,         \* txList.length of the poll in progress
    i,             \* position of the for loop in txList
    res,           \* const res of the last extraction
    promise,       \* the promise the watch call returned
    settleCalls,   \* number of resolve / reject calls made so far
    outstanding,   \* getAccountTrx calls in flight
    unhandled,     \* rejection of the executor's own promise
    polls          \* getAccountTrx calls issued, saturating at MaxPolls

\* The pure codec functions (state-helpers.js, util-helpers.js) are applied
\* to one input per behaviour of CodecSpec.
VARIABLES
    cin,           \* the call: the function and its arguments
    cout           \* its outcome: a returned value or a thrown error

vars == <<pc, kind, tx, failTimeout, rejected, relevantTx, txLen, i, res,
          promise, settleCalls, outstanding, unhandled, polls, cin, cout>>

\* No codec call is in progress.
NoCall == [fn |-> "none"]
NoOutcome == [status |-> "none"]

PendingPromise == [status |-> "pending", value |-> UNDEF]

\* resolve(value) / reject(value) of a promise: only the first call settles.
Settle(p, st, val) ==
    IF p.status = "pending" THEN [status |-> st, value |-> val] ELSE p

\* A number as an argument value: reading a property of it gives undefined.
JsNumber(n) == [number |-> n]

\* options.timeout: 0 stands for undefined, also when options has no such
\* property.
TimeoutOf(options) == IF "timeout" \in DOMAIN options THEN options.timeout ELSE 0

\* options.timeout || DEFAULT_WAIT_TIMEOUT
TimerDelay(options) ==
    IF TimeoutOf(options) # 0 THEN TimeoutOf(options) ELSE DEFAULT_WAIT_TIMEOUT

\* clearTimeout(failTimeout): a timer that has fired is not affected.
ClearTimeout_Keep(t) == t

ClearTimeout(t) ==
    IF t.state = "pending" THEN [t EXCEPT !.state = "cleared"] ELSE t

\* The value the deadline callback rejects with.
TimeoutError(k) ==
    [error |-> IF k = "acquire" THEN ACQUIRE_ERR ELSE EXTEND_ERR, reason |-> TIMEOUT]

\* The condition of the if statement inside the for loop.
IsMatch_Or(k, ev, t) ==
    IF k = "acquire"
    THEN (ev.name = AcquireSuccess \/ ev.name = AcquireError) \/ ev.data.acquireRefId = t.id
    ELSE (ev.name = ExtendSuccess \/ ev.name = ExtendError) \/ ev.data.extendRefId = t.id

IsMatch(k, ev, t) ==
    IF k = "acquire"
    THEN (ev.name = AcquireSuccess \/ ev.name = AcquireError) /\ ev.data.acquireRefId = t.id
    ELSE (ev.name = ExtendSuccess \/ ev.name = ExtendError) /\ ev.data.extendRefId = t.id

\* The condition of the while loop.
LoopCond_IgnoreRejected(rej, rel) == rel = NullEvent

LoopCond(rej, rel) == ~rej /\ rel = NullEvent

\* The value resolve() is called with on a success match.
SuccessValue_Swapped(k, rel) ==
    IF k = "acquire"
    THEN [transaction |-> rel.data.transaction,
          instance |-> rel.data.transaction,
          acquireRefId |-> rel.data.acquireRefId]
    ELSE [transaction |-> rel.data.transaction,
          expiryMoment |-> rel.data.transaction,
          extendRefId |-> rel.data.extendRefId]

SuccessValue(k, rel) ==
    IF k = "acquire"
    THEN [transaction |-> rel.data.transaction,
          instance |-> rel.data.payload.content,
          acquireRefId |-> rel.data.acquireRefId]
    ELSE [transaction |-> rel.data.transaction,
          expiryMoment |-> rel.data.expiryMoment,
          extendRefId |-> rel.data.extendRefId]

\* The value reject() is called with on an error match.
ErrorValue_Timeout(k, rel) ==
    IF k = "acquire"
    THEN [error |-> ACQUIRE_ERR,
          transaction |-> rel.data.transaction,
          reason |-> TIMEOUT,
          acquireRefId |-> rel.data.acquireRefId]
    ELSE [error |-> EXTEND_ERR,
          transaction |-> rel.data.transaction,
          reason |-> TIMEOUT]

ErrorValue(k, rel) ==
    IF k = "acquire"
    THEN [error |-> ACQUIRE_ERR,
          transaction |-> rel.data.transaction,
          reason |-> rel.data.reason,
          acquireRefId |-> rel.data.acquireRefId]
    ELSE [error |-> EXTEND_ERR,
          transaction |-> rel.data.transaction,
          reason |-> rel.data.reason]

SuccessName(k) == IF k = "acquire" THEN AcquireSuccess ELSE ExtendSuccess
ErrorName(k) == IF k = "acquire" THEN AcquireError ELSE ExtendError

\* The guard of the block after the while loop.
FinalGuard_Always(rej) == TRUE

FinalGuard(rej) == ~rej

\* The block after the while loop: settles the promise from relevantTx.
FinalBlock(rej, rel) ==
    IF FinalGuard(rej) /\ rel.name = SuccessName(kind)
    THEN /\ promise' = Settle(promise, "resolved", SuccessValue(kind, rel))
         /\ settleCalls' = settleCalls + 1
    ELSE IF FinalGuard(rej) /\ rel.name = ErrorName(kind)
    THEN /\ promise' = Settle(promise, "rejected", ErrorValue(kind, rel))
         /\ settleCalls' = settleCalls + 1
    ELSE /\ promise' = promise
         /\ settleCalls' = settleCalls

\* The head of the while loop, reached with `out` queries in flight: either
\* the next getAccountTrx call is issued or the loop is left and the final
\* block runs.
LoopStep(out, rej, rel) ==
    IF LoopCond(rej, rel)
    THEN /\ pc' = "query"
         /\ outstanding' = out + 1
         /\ polls' = IF polls < MaxPolls THEN polls + 1 ELSE polls
         /\ promise' = promise
         /\ settleCalls' = settleCalls
    ELSE /\ pc' = "done"
         /\ outstanding' = out
         /\ polls' = polls
         /\ FinalBlock(rej, rel)

\* The end of the for loop (also by break): the inter-poll delay starts.
AfterFor_NoDelay(out, rej, rel) == LoopStep(out, rej, rel)

AfterFor(out, rej, rel) ==
    /\ pc' = "sleep"
    /\ outstanding' = out
    /\ polls' = polls
    /\ promise' = promise
    /\ settleCalls' = settleCalls

\* When the deadline callback may run: whenever the timer is pending; the
\* executor is suspended in every state of the model.
TimerCanFire_AfterSleepOnly == failTimeout.state = "pending" /\ pc = "sleep"

TimerCanFire == failTimeout.state = "pending"

\* What the deadline callback does to the promise.
TimeoutSettle_Silent(p, k) == p

TimeoutSettle(p, k) == Settle(p, "rejected", TimeoutError(k))

Init ==
    /\ pc = "idle"
    /\ kind = "none"
    /\ tx = [id |-> UNDEF]
    /\ failTimeout = [state |-> "none", delay |-> 0]
    /\ rejected = FALSE
    /\ relevantTx = NullEvent
    /\ txLen = 0
    /\ i = 0
    /\ res = NullEvent
    /\ promise = PendingPromise
    /\ settleCalls = 0
    /\ outstanding = 0
    /\ unhandled = UNDEF
    /\ polls = 0
    /\ cin = NoCall
    /\ cout = NoOutcome

\* watchAcquireResponse(tx, options) / watchExtendResponse(tx, options) up to
\* the first await: the timer is set and the first query is issued.
StartWatch(k, id, options) ==
    /\ pc = "idle"
    /\ kind' = k
    /\ tx' = [id |-> id]
    /\ rejected' = FALSE
    /\ failTimeout' = [state |-> "pending", delay |-> TimerDelay(options)]
    /\ relevantTx' = NullEvent
    /\ pc' = "query"
    /\ outstanding' = outstanding + 1
    /\ polls' = 1
    /\ UNCHANGED <<txLen, i, res, promise, settleCalls, unhandled>>

\* A watch method called on its own.
Watch(k, id, options) ==
    /\ StartWatch(k, id, options)
    /\ UNCHANGED <<cin, cout>>

\* getAccountTrx resolves with a list of n transactions; the for loop starts.
QueryReturn(n) ==
    /\ pc = "query"
    /\ txLen' = n
    /\ IF n = 0
       THEN /\ AfterFor(outstanding - 1, rejected, relevantTx)
            /\ i' = i
       ELSE /\ pc' = "extract"
            /\ i' = 1
            /\ outstanding' = outstanding - 1
            /\ UNCHANGED <<polls, promise, settleCalls>>
    /\ UNCHANGED <<kind, tx, failTimeout, rejected, relevantTx, res, unhandled>>
    /\ UNCHANGED <<cin, cout>>

\* getAccountTrx rejects: the await throws inside the async executor, whose
\* own promise is rejected; nothing handles that rejection.
QueryFail(err) ==
    /\ pc = "query"
    /\ pc' = "failed"
    /\ unhandled' = err
    /\ outstanding' = outstanding - 1
    /\ UNCHANGED <<kind, tx, failTimeout, rejected, relevantTx, txLen, i, res,
                   promise, settleCalls, polls>>
    /\ UNCHANGED <<cin, cout>>

\* extractEvernodeEvent resolves with ev for transaction i of the list.
ExtractReturn(ev) ==
    /\ pc = "extract"
    /\ res' = ev
    /\ IF IsMatch(kind, ev, tx)
       THEN /\ failTimeout' = ClearTimeout(failTimeout)
            /\ relevantTx' = ev
            /\ i' = i
            /\ AfterFor(outstanding, rejected, ev)
       ELSE /\ UNCHANGED <<failTimeout, relevantTx>>
            /\ IF i < txLen
               THEN /\ i' = i + 1
                    /\ UNCHANGED <<pc, outstanding, polls, promise, settleCalls>>
               ELSE /\ i' = i
                    /\ AfterFor(outstanding, rejected, relevantTx)
    /\ UNCHANGED <<kind, tx, rejected, txLen, unhandled>>
    /\ UNCHANGED <<cin, cout>>

\* The inter-poll delay ends: back to the head of the while loop.
SleepDone ==
    /\ pc = "sleep"
    /\ LoopStep(outstanding, rejected, relevantTx)
    /\ UNCHANGED <<kind, tx, failTimeout, rejected, relevantTx, txLen, i, res, unhandled>>
    /\ UNCHANGED <<cin, cout>>

\* The callback of failTimeout.
FireTimeout ==
    /\ TimerCanFire
    /\ failTimeout' = [failTimeout EXCEPT !.state = "fired"]
    /\ rejected' = TRUE
    /\ promise' = TimeoutSettle(promise, kind)
    /\ settleCalls' = settleCalls + 1
    /\ UNCHANGED <<pc, kind, tx, relevantTx, txLen, i, res, outstanding, unhandled, polls>>
    /\ UNCHANGED <<cin, cout>>

Next ==
    \/ \E k \in WatchKinds, id \in TxIds, t \in TimeoutOptions : Watch(k, id, [timeout |-> t])
    \/ \E n \in 0..MaxTx : QueryReturn(n)
    \/ \E err \in QueryErrors : QueryFail(err)
    \/ \E ev \in Events : ExtractReturn(ev)
    \/ SleepDone
    \/ FireTimeout

Spec == Init /\ [][Next]_vars

\* Timers of the event loop fire: the executor never blocks the loop.
TimerSpec == Spec /\ WF_vars(FireTimeout) /\ WF_vars(SleepDone)

\* In addition every outstanding query and extraction returns.
PollSpec ==
    /\ TimerSpec
    /\ WF_vars((\E n \in 0..MaxTx : QueryReturn(n)) \/ (\E err \in QueryErrors : QueryFail(err)))
    /\ WF_vars(\E ev \in Events : ExtractReturn(ev))

\* ------------------------------------------------------------------------
\* Vocabulary of the properties, stated on the observable state only.
\* ------------------------------------------------------------------------

\* The correlation id of an event as the given watch method reads it.
CorrelationId(k, ev) ==
    IF k = "acquire" THEN ev.data.acquireRefId ELSE ev.data.extendRefId

ExpectedSuccessKind(k) == IF k = "acquire" THEN "AcquireSuccess" ELSE "ExtendSuccess"
ExpectedErrorKind(k) == IF k = "acquire" THEN "AcquireError" ELSE "ExtendError"

\* An event that correlates with the watched transaction.
Correlates(k, ev, id) ==
    /\ CorrelationId(k, ev) = id
    /\ ev.name \in {ExpectedSuccessKind(k), ExpectedErrorKind(k)}

Invoked == pc # "idle"
Pending == promise.status = "pending"
MatchedSuccess == promise.status = "resolved"
TimedOut == promise.status = "rejected" /\ promise.value.reason = TIMEOUT
MatchedError == promise.status = "rejected" /\ promise.value.reason # TIMEOUT

\* The last decoded event correlates and the deadline had not fired when it
\* was decoded (a deadline still pending at that point is cancelled by it).
ObservedBeforeDeadline ==
    /\ Invoked
    /\ Correlates(kind, res, tx.id)
    /\ failTimeout.state # "fired"

\* ------------------------------------------------------------------------
\* C1: a getAccountTrx failure during a poll rejects the watch promise with
\* the query error at the time of the failure (not later with TIMEOUT, and
\* not swallowed).
\* ------------------------------------------------------------------------
C1_QueryFailureRejectsWatch ==
    pc = "failed" => (promise.status = "rejected" /\ promise.value = unhandled)

\* ------------------------------------------------------------------------
\* C2: once a poll has decoded, before the deadline fired, an event with the
\* submitted transaction id and the expected success kind, the watch promise
\* eventually resolves with that event's payload.
\* ------------------------------------------------------------------------
ExpectedSuccessPayload(k, ev) ==
    IF k = "acquire"
    THEN [transaction |-> ev.data.transaction,
          instance |-> ev.data.payload.content,
          acquireRefId |-> ev.data.acquireRefId]
    ELSE [transaction |-> ev.data.transaction,
          expiryMoment |-> ev.data.expiryMoment,
          extendRefId |-> ev.data.extendRefId]

C2_SuccessMatchResolves ==
    [](( ObservedBeforeDeadline /\ res.name = ExpectedSuccessKind(kind))
        => <>(promise = [status |-> "resolved", value |-> ExpectedSuccessPayload(kind, res)]))

\* The success event arrived on a later poll and the promise resolved with it.
C2_Witness ==
    /\ polls >= 2
    /\ res.name = ExpectedSuccessKind(kind)
    /\ promise = [status |-> "resolved", value |-> ExpectedSuccessPayload(kind, res)]

\* ------------------------------------------------------------------------
\* C3: once a poll has decoded, before the deadline fired, an event with the
\* submitted transaction id and the expected error kind, the watch promise
\* eventually rejects with the reason of that event, never with TIMEOUT.
\* ------------------------------------------------------------------------
C3_ErrorMatchRejects ==
    []((ObservedBeforeDeadline /\ res.name = ExpectedErrorKind(kind))
        => /\ ~TimedOut
           /\ <>(/\ promise.status = "rejected"
                 /\ promise.value.reason = res.data.reason
                 /\ promise.value.transaction = res.data.transaction))

C3_Witness ==
    /\ res.name = ExpectedErrorKind(kind)
    /\ Correlates(kind, res, tx.id)
    /\ MatchedError
    /\ promise.value.reason = res.data.reason

\* ------------------------------------------------------------------------
\* C4: a watch invocation during which no correlating event is ever decoded
\* eventually rejects with reason TIMEOUT and never has another outcome.
\* ------------------------------------------------------------------------
C4_NoMatchTimesOut ==
    \/ []~Invoked
    \/ <>Correlates(kind, res, tx.id)
    \/ (<>TimedOut /\ [](Pending \/ TimedOut))

\* Timed out after several polls none of which yielded a correlating event.
C4_Witness ==
    /\ TimedOut
    /\ polls >= 2
    /\ relevantTx = NullEvent
    /\ ~Correlates(kind, res, tx.id)

\* ------------------------------------------------------------------------
\* C5: the deadline fires while a query is outstanding: a watch whose query
\* never returns still times out, with the query still outstanding.
\* ------------------------------------------------------------------------
C5_DeadlineRacesStuckPoll ==
    (<>[](pc = "query")) => <>(TimedOut /\ pc = "query" /\ outstanding = 1)

C5_Witness ==
    /\ TimedOut
    /\ pc = "query"
    /\ outstanding = 1

\* ------------------------------------------------------------------------
\* C6: the watch promise is settled at most once: after the first resolve or
\* reject no further resolve or reject is attempted and the outcome stays.
\* ------------------------------------------------------------------------
C6_SettledOnce ==
    [][/\ ~Pending => (promise' = promise /\ settleCalls' = settleCalls)
       /\ settleCalls' <= 1
       /\ (settleCalls' = 0) <=> (promise'.status = "pending")]_vars

\* The deadline fired and a correlating event was decoded afterwards: the
\* loop has ended with both "rejected" and "relevantTx" set.
C6_Witness ==
    /\ pc = "done"
    /\ rejected
    /\ relevantTx # NullEvent
    /\ TimedOut

\* ------------------------------------------------------------------------
\* C7: whenever a watch invocation has finished (success match, error match,
\* timeout or failed poll) its deadline timer is no longer pending.
\* ------------------------------------------------------------------------
C7_TimerReleasedOnExit ==
    (pc \in {"done", "failed"} \/ ~Pending) => failTimeout.state # "pending"

\* ------------------------------------------------------------------------
\* C8: at most one getAccountTrx call is outstanding, and a query is issued
\* only by the invocation itself or after the inter-poll delay has ended,
\* with no other query in flight.
\* ------------------------------------------------------------------------
C8_PollsAreSequential ==
    [][/\ outstanding' <= 1
       /\ (pc' = "query" /\ pc # "query")
            => (pc \in {"idle", "sleep"} /\ outstanding = 0 /\ outstanding' = 1)
       /\ (pc = "query" /\ pc' = "query") => outstanding' = outstanding]_vars

\* A second query is outstanding after a full query, compare, delay round.
C8_Witness ==
    /\ pc = "query"
    /\ polls >= 2
    /\ txLen > 0
    /\ outstanding = 1

\* ------------------------------------------------------------------------
\* C9: after the deadline has fired or a match was found, and when every
\* outstanding query and decoding returns, the loop exits for good and no
\* query remains or is issued.
\* ------------------------------------------------------------------------
C9_LoopTerminates ==
    []((Invoked /\ (failTimeout.state = "fired" \/ relevantTx # NullEvent))
        => <>[](pc \in {"done", "failed"} /\ outstanding = 0))

\* The loop was left because of the deadline alone, after several polls.
C9_Witness ==
    /\ pc = "done"
    /\ failTimeout.state = "fired"
    /\ relevantTx = NullEvent
    /\ polls >= 2
    /\ outstanding = 0

\* ------------------------------------------------------------------------
\* C10: only an event with the submitted id and one of the two expected
\* kinds is taken as the match, ends the loop or determines the outcome.
\* ------------------------------------------------------------------------
C10_OnlyCorrelatingEventsMatch ==
    /\ relevantTx # NullEvent => Correlates(kind, relevantTx, tx.id)
    /\ pc = "done" => (rejected \/ Correlates(kind, relevantTx, tx.id))
    /\ MatchedSuccess =>
         (Correlates(kind, relevantTx, tx.id) /\ relevantTx.name = ExpectedSuccessKind(kind))
    /\ MatchedError =>
         (Correlates(kind, relevantTx, tx.id) /\ relevantTx.name = ExpectedErrorKind(kind))

\* An event with the right id but another kind, or an expected kind but
\* another id, was decoded and the loop went on to the next poll.
C10_Witness ==
    /\ pc \in {"sleep", "query"}
    /\ relevantTx = NullEvent
    /\ res # NullEvent
    /\ \/ CorrelationId(kind, res) = tx.id
       \/ res.name \in {ExpectedSuccessKind(kind), ExpectedErrorKind(kind)}
    /\ polls >= 2

\* ========================================================================
\* The codecs: StateHelpers (src/src/state-helpers.js) and UtilHelpers
\* (src/src/util-helpers.js).  Buffers are sequences of bytes, hex strings
\* are sequences of hex digits (0..15), integers wider than 16 bits are
\* sequences of 16-bit digits, most significant first.
\* ========================================================================

\* ------------------------------------------------------------------------
\* Bounds of the codec inputs.
\* ------------------------------------------------------------------------

\* State data buffers of every length from 0 to MaxDataLen are decoded.
MaxDataLen == 134

\* Lease URI buffers carry up to MaxUriExtra bytes after the lease amount.
MaxUriExtra == 1

\* ------------------------------------------------------------------------
\* Buffer operations.
\* ------------------------------------------------------------------------

Min(a, b) == IF a < b THEN a ELSE b

Zeros(n) == [k \in 1..n |-> 0]

\* buf.slice(start, end): clamped to the buffer, never throws.
Slice(buf, start, end) == SubSeq(buf, Min(start, Len(buf)) + 1, Min(end, Len(buf)))

\* The range check of buf.readUIntN(offset): a RangeError unless this holds.
InRange(buf, offset, width) == offset + width <= Len(buf)

ReadUInt8(buf, offset) == buf[offset + 1]

ReadUInt16BE(buf, offset) == buf[offset + 1] * 256 + buf[offset + 2]

ReadUInt32BE(buf, offset) == <<ReadUInt16BE(buf, offset), ReadUInt16BE(buf, offset + 2)>>

\* readBigUInt64BE / readBigInt64BE: the 64 bits, as four 16-bit digits.
ReadBigUInt64BE(buf, offset) ==
    <<ReadUInt16BE(buf, offset), ReadUInt16BE(buf, offset + 2),
      ReadUInt16BE(buf, offset + 4), ReadUInt16BE(buf, offset + 6)>>

\* buf.toString('hex').toUpperCase()
ToHex(buf) ==
    [k \in 1..(2 * Len(buf)) |->
        IF k % 2 = 1 THEN buf[(k + 1) \div 2] \div 16 ELSE buf[k \div 2] % 16]

\* Buffer.from(hex, 'hex')
FromHex(hex) ==
    [k \in 1..(Len(hex) \div 2) |-> hex[2 * k - 1] * 16 + hex[2 * k]]

\* source.copy(target, targetStart, sourceStart, sourceEnd)
Copy(source, target, targetStart, sourceStart, sourceEnd) ==
    LET n == Min(Min(sourceEnd, Len(source)) - sourceStart, Len(target) - targetStart) IN
    [k \in 1..Len(target) |->
        IF k > targetStart /\ k <= targetStart + n
        THEN source[sourceStart + (k - targetStart)]
        ELSE target[k]]

\* a.compare(b): -1, 0 or 1 by the first differing byte, then by length.
Compare(a, b) ==
    LET n == Min(Len(a), Len(b))
        diff == {k \in 1..n : a[k] # b[k]}
    IN  IF diff # {}
        THEN LET k == CHOOSE d \in diff : \A e \in diff : d <= e
             IN IF a[k] < b[k] THEN -1 ELSE 1
        ELSE IF Len(a) < Len(b) THEN -1 ELSE IF Len(a) > Len(b) THEN 1 ELSE 0

\* prefix.compare(stateKey, 0, 4)
ComparePrefix(prefix, stateKey) == Compare(prefix, Slice(stateKey, 0, 4))

\* .toString().replace(/\0/g, '') and .toString().replace(/\x00+$/, '')
RECURSIVE RemoveNuls(_)
RemoveNuls(text) ==
    IF text = <<>> THEN <<>>
    ELSE IF Head(text) = 0 THEN RemoveNuls(Tail(text))
    ELSE <<Head(text)>> \o RemoveNuls(Tail(text))

RECURSIVE TrimTrailingNuls(_)
TrimTrailingNuls(text) ==
    IF text = <<>> THEN <<>>
    ELSE IF text[Len(text)] = 0 THEN TrimTrailingNuls(SubSeq(text, 1, Len(text) - 1))
    ELSE text

Returned(v) == [status |-> "returned", value |-> v]
Thrown(e) == [status |-> "thrown", error |-> e]

RangeError == [type |-> "RangeError"]
CodecError == [type |-> "AddressCodecError"]
ValidationError == [type |-> "Validation Error", message |-> "Invalid state key."]

\* codec.encodeAccountID(bytes) / codec.decodeAccountID(address): the
\* address of a 20-byte account id and back; any other length is refused.
CanEncodeAccountID(bytes) == Len(bytes) = 20
EncodeAccountID(bytes) == [classicAddress |-> bytes]
DecodeAccountID(address) == address.classicAddress

\* ------------------------------------------------------------------------
\* Keys.
\* ------------------------------------------------------------------------

STATE_KEY_TYPES ==
    [TOKEN_ID |-> 2, HOST_ADDR |-> 3, TRANSFEREE_ADDR |-> 4, CANDIDATE_OWNER |-> 5, CANDIDATE_ID |-> 6]

\* Buffer.from('EVR', 'utf-8')
EVERNODE_PREFIX == <<69, 86, 82>>

HOST_ADDR_KEY_ZERO_COUNT == 8

StateTypes ==
    [TOKEN_ID |-> "tokenId", HOST_ADDR |-> "hostAddr", SIGLETON |-> "singleton",
     CONFIGURATION |-> "configuration", TRANSFEREE_ADDR |-> "transfereeAddr",
     CANDIDATE_OWNER |-> "candidateOwner", CANDIDATE_ID |-> "candidateId"]

\* HookStateKeys of evernode-common: five 4-byte kind prefixes and the
\* well-known 32-byte singleton and configuration keys.
ConfigurationKey(n) == EVERNODE_PREFIX \o <<1>> \o Zeros(27) \o <<n>>
SingletonKey(n) == EVERNODE_PREFIX \o <<n>> \o Zeros(28)

HookStateKeys ==
    [PREFIX_HOST_TOKENID |-> EVERNODE_PREFIX \o <<2>>,
     PREFIX_HOST_ADDR |-> EVERNODE_PREFIX \o <<3>>,
     PREFIX_TRANSFEREE_ADDR |-> EVERNODE_PREFIX \o <<4>>,
     PREFIX_CANDIDATE_OWNER |-> EVERNODE_PREFIX \o <<5>>,
     PREFIX_CANDIDATE_ID |-> EVERNODE_PREFIX \o <<6>>,
     EVR_ISSUER_ADDR |-> ConfigurationKey(1),
     FOUNDATION_ADDR |-> ConfigurationKey(2),
     MOMENT_SIZE |-> ConfigurationKey(3),
     MINT_LIMIT |-> ConfigurationKey(4),
     FIXED_REG_FEE |-> ConfigurationKey(5),
     HOST_HEARTBEAT_FREQ |-> ConfigurationKey(6),
     LEASE_ACQUIRE_WINDOW |-> ConfigurationKey(7),
     REWARD_CONFIGURATION |-> ConfigurationKey(8),
     MAX_TOLERABLE_DOWNTIME |-> ConfigurationKey(9),
     MOMENT_TRANSIT_INFO |-> ConfigurationKey(10),
     MAX_TRX_EMISSION_FEE |-> ConfigurationKey(11),
     HEARTBEAT_ADDR |-> ConfigurationKey(12),
     REGISTRY_ADDR |-> ConfigurationKey(13),
     GOVERNANCE_CONFIGURATION |-> ConfigurationKey(14),
     HOST_COUNT |-> SingletonKey(50),
     MOMENT_BASE_INFO |-> SingletonKey(51),
     HOST_REG_FEE |-> SingletonKey(52),
     MAX_REG |-> SingletonKey(53),
     REWARD_INFO |-> SingletonKey(54),
     GOVERNANCE_INFO |-> SingletonKey(55)]

\* Buffer.from(HookStateKeys.X, 'hex').compare(stateKey) === 0
IsKey(name, stateKey) == Compare(HookStateKeys[name], stateKey) = 0

\* Buffer.from(HookStateKeys.X, 'hex').compare(stateKey, 0, 4) === 0
HasPrefix(name, stateKey) == ComparePrefix(HookStateKeys[name], stateKey) = 0

\* The HOST_HEARTBEAT_FREQ operand of decodeStateKey: the result of compare
\* is used as the condition itself, and is truthy when it is not 0.
HeartbeatFreqOperand(stateKey) == Compare(HookStateKeys.HOST_HEARTBEAT_FREQ, stateKey) # 0

decodeStateKey(stateKey) ==
    LET hexKey == ToHex(stateKey) IN
    IF HasPrefix("PREFIX_HOST_ADDR", stateKey)
    THEN Returned([key |-> hexKey, type |-> StateTypes.HOST_ADDR])
    ELSE IF HasPrefix("PREFIX_HOST_TOKENID", stateKey)
    THEN Returned([key |-> hexKey, type |-> StateTypes.TOKEN_ID])
    ELSE IF HasPrefix("PREFIX_TRANSFEREE_ADDR", stateKey)
    THEN Returned([key |-> hexKey, type |-> StateTypes.TRANSFEREE_ADDR])
    ELSE IF HasPrefix("PREFIX_CANDIDATE_ID", stateKey)
    THEN Returned([key |-> hexKey, type |-> StateTypes.CANDIDATE_ID])
    ELSE IF HasPrefix("PREFIX_CANDIDATE_OWNER", stateKey)
    THEN Returned([key |-> hexKey, type |-> StateTypes.CANDIDATE_OWNER])
    ELSE IF \/ IsKey("HOST_COUNT", stateKey)
            \/ IsKey("MOMENT_BASE_INFO", stateKey)
            \/ IsKey("HOST_REG_FEE", stateKey)
            \/ IsKey("MAX_REG", stateKey)
            \/ IsKey("REWARD_INFO", stateKey)
    THEN Returned([key |-> hexKey, type |-> StateTypes.SIGLETON])
    ELSE IF \/ IsKey("EVR_ISSUER_ADDR", stateKey)
            \/ IsKey("FOUNDATION_ADDR", stateKey)
            \/ IsKey("MOMENT_SIZE", stateKey)
            \/ HeartbeatFreqOperand(stateKey)
            \/ IsKey("MINT_LIMIT", stateKey)
            \/ IsKey("FIXED_REG_FEE", stateKey)
            \/ IsKey("LEASE_ACQUIRE_WINDOW", stateKey)
            \/ IsKey("REWARD_CONFIGURATION", stateKey)
            \/ IsKey("MAX_TOLERABLE_DOWNTIME", stateKey)
            \/ IsKey("MOMENT_TRANSIT_INFO", stateKey)
            \/ IsKey("MAX_TRX_EMISSION_FEE", stateKey)
            \/ IsKey("REGISTRY_ADDR", stateKey)
            \/ IsKey("HEARTBEAT_ADDR", stateKey)
            \/ IsKey("GOVERNANCE_CONFIGURATION", stateKey)
            \/ IsKey("GOVERNANCE_INFO", stateKey)
    THEN Returned([key |-> hexKey, type |-> StateTypes.CONFIGURATION])
    ELSE Thrown(ValidationError)

\* ------------------------------------------------------------------------
\* Offsets and lengths of the state data layouts.
\* ------------------------------------------------------------------------

EPOCH_OFFSET == 0
SAVED_MOMENT_OFFSET == 1
PREV_MOMENT_ACTIVE_HOST_COUNT_OFFSET == 5
CUR_MOMENT_ACTIVE_HOST_COUNT_OFFSET == 9
EPOCH_POOL_OFFSET == 13
EPOCH_COUNT_OFFSET == 0
FIRST_EPOCH_REWARD_QUOTA_OFFSET == 1
EPOCH_REWARD_AMOUNT_OFFSET == 5
REWARD_START_MOMENT_OFFSET == 9
TRANSIT_IDX_OFFSET == 0
TRANSIT_MOMENT_SIZE_OFFSET == 8
TRANSIT_MOMENT_TYPE_OFFSET == 10
MOMENT_BASE_POINT_OFFSET == 0
MOMENT_AT_TRANSITION_OFFSET == 8
MOMENT_TYPE_OFFSET == 12
ELIGIBILITY_PERIOD_OFFSET == 0
CANDIDATE_LIFE_PERIOD_OFFSET == 4
CANDIDATE_ELECTION_PERIOD_OFFSET == 8
CANDIDATE_SUPPORT_AVERAGE_OFFSET == 12
GOVERNANCE_MODE_OFFSET == 0
LAST_CANDIDATE_IDX_OFFSET == 1
VOTER_BASE_COUNT_OFFSET == 5
VOTER_BASE_COUNT_CHANGED_TIMESTAMP_OFFSET == 9
FOUNDATION_LAST_VOTED_CANDIDATE_IDX == 17
FOUNDATION_LAST_VOTED_TIMESTAMP_OFFSET == 21
ELECTED_PROPOSAL_UNIQUE_ID_OFFSET == 29
PROPOSAL_ELECTED_TIMESTAMP_OFFSET == 61
UPDATED_HOOK_COUNT_OFFSET == 69
FOUNDATION_SUPPORT_VOTE_FLAG_OFFSET == 70
HOST_TOKEN_ID_OFFSET == 0
HOST_COUNTRY_CODE_OFFSET == 32
HOST_RESERVED_OFFSET == 34
HOST_DESCRIPTION_OFFSET == 42
HOST_REG_LEDGER_OFFSET == 68
HOST_REG_FEE_OFFSET == 76
HOST_TOT_INS_COUNT_OFFSET == 84
HOST_ACT_INS_COUNT_OFFSET == 88
HOST_HEARTBEAT_TIMESTAMP_OFFSET == 92
HOST_VERSION_OFFSET == 100
HOST_REG_TIMESTAMP_OFFSET == 103
HOST_TRANSFER_FLAG_OFFSET == 111
HOST_LAST_VOTE_CANDIDATE_IDX_OFFSET == 112
HOST_LAST_VOTE_TIMESTAMP_OFFSET == 116
HOST_SUPPORT_VOTE_FLAG_OFFSET == 124
HOST_ADDRESS_OFFSET == 0
HOST_CPU_MODEL_NAME_OFFSET == 20
HOST_CPU_COUNT_OFFSET == 60
HOST_CPU_SPEED_OFFSET == 62
HOST_CPU_MICROSEC_OFFSET == 64
HOST_RAM_MB_OFFSET == 68
HOST_DISK_MB_OFFSET == 72
HOST_EMAIL_ADDRESS_OFFSET == 76
PREV_HOST_ADDRESS_OFFSET == 0
TRANSFER_LEDGER_IDX_OFFSET == 20
TRANSFERRED_NFT_ID_OFFSET == 28
CANDIDATE_GOVERNOR_HOOK_HASH_OFFSET == 0
CANDIDATE_REGISTRY_HOOK_HASH_OFFSET == 32
CANDIDATE_HEARTBEAT_HOOK_HASH_OFFSET == 64
CANDIDATE_OWNER_ADDRESS_OFFSET == 0
CANDIDATE_IDX_OFFSET == 20
CANDIDATE_SHORT_NAME_OFFSET == 24
CANDIDATE_CREATED_TIMESTAMP_OFFSET == 44
CANDIDATE_PROPOSAL_FEE_OFFSET == 52
CANDIDATE_POSITIVE_VOTE_COUNT_OFFSET == 60
CANDIDATE_LAST_VOTE_TIMESTAMP_OFFSET == 64
CANDIDATE_STATUS_OFFSET == 72
CANDIDATE_STATUS_CHANGE_TIMESTAMP_OFFSET == 73
CANDIDATE_FOUNDATION_VOTE_STATUS_OFFSET == 81
TRANSFEREE_ADDR_KEY_ZERO_COUNT == 8
CANDIDATE_OWNER_KEY_ZERO_COUNT == 8
HOOK_STATE_LEDGER_TYPE_PREFIX == 118
PENDING_TRANSFER == 1
HOST_EMAIL_ADDRESS_LEN == 40

MOMENT_TYPES == [LEDGER |-> 0, TIMESTAMP |-> 1]
TRANSFER_STATES == [NO_TRANSFER |-> 0, HAS_A_TRANSFER |-> 1]

\* EvernodeConstants of evernode-common.
CandidateStatuses ==
    [CANDIDATE_SUPPORTED |-> 0, CANDIDATE_ELECTED |-> 1, CANDIDATE_VETOED |-> 2, CANDIDATE_EXPIRED |-> 3]
GovernanceModes == [Piloted |-> 0, CoPiloted |-> 1, AutoPiloted |-> 2]
CandidateTypes == [NewHook |-> 1, PilotedMode |-> 2, DudHost |-> 3]
HOOK_NAMESPACE == [k \in 1..32 |-> 16 + k]

\* Number(bigint): the nearest double.  Exact below 2^53; above, the low
\* bits beyond the 53 significant ones are rounded (ties to even).  A
\* rounding up to 2^64 leaves the leading digit at 65536.
BitLength16(t) == CHOOSE n \in 0..16 : t < 2^n /\ (n = 0 \/ t >= 2^(n - 1))

Number(bits) ==
    IF bits[1] < 32 THEN bits
    ELSE LET q == 2^(BitLength16(bits[1]) - 5)
             r == bits[4] % q
             base == bits[4] - r
             up == r * 2 > q \/ (r * 2 = q /\ (base \div q) % 2 = 1)
             d4 == IF up THEN base + q ELSE base
             d3 == bits[3] + d4 \div 65536
             d2 == bits[2] + d3 \div 65536
             d1 == bits[1] + d2 \div 65536
         IN <<d1, d2 % 65536, d3 % 65536, d4 % 65536>>

\* XflHelpers.toString(bigint): the decimal string of a 64-bit scaled
\* decimal, kept as the value it is the string of.
XflToString(bits) == [xfl |-> bits]

\* sha512Half(buffer): a 32-byte digest of the content.
Sha512Half(buf) ==
    [k \in 1..32 |->
        (Len(buf) * 31 + k * 17 + (IF buf = <<>> THEN 7 ELSE buf[1] * 3 + buf[Len(buf)] * 5)) % 256]

\* Every read of the given <<offset, width>> list is inside the buffer.
AllInRange(buf, reads) == \A r \in reads : InRange(buf, r[1], r[2])

\* ------------------------------------------------------------------------
\* Key generators and candidate ids.
\* ------------------------------------------------------------------------

\* buf of generateHostAddrStateKey: the key type and the zero bytes.
HostAddrKeyInfix_TypeTokenId == <<STATE_KEY_TYPES.TOKEN_ID>> \o Zeros(HOST_ADDR_KEY_ZERO_COUNT)

HostAddrKeyInfix == <<STATE_KEY_TYPES.HOST_ADDR>> \o Zeros(HOST_ADDR_KEY_ZERO_COUNT)

generateHostAddrStateKey(address) ==
    ToHex(EVERNODE_PREFIX \o HostAddrKeyInfix \o DecodeAccountID(address))

getNewHookCandidateId(hashesBuf) ==
    LET idBuf == [Zeros(32) EXCEPT ![5] = CandidateTypes.NewHook] IN
    ToHex(Copy(Sha512Half(hashesBuf), idBuf, 5, 5, 32))

getPilotedModeCandidateId ==
    LET idBuf == [Zeros(32) EXCEPT ![5] = CandidateTypes.PilotedMode] IN
    ToHex(Copy(HOOK_NAMESPACE, idBuf, 5, 5, 32))

getDudHostCandidateId(hostAddress) ==
    LET idBuf == [Zeros(32) EXCEPT ![5] = CandidateTypes.DudHost] IN
    ToHex(Copy(DecodeAccountID(hostAddress), idBuf, 12, 0, 20))

getCandidateType_FirstByte(candidateId) == ReadUInt8(FromHex(candidateId), 0)

getCandidateType(candidateId) == ReadUInt8(FromHex(candidateId), 4)

\* ------------------------------------------------------------------------
\* Entity decoders.  Each returns Returned(record) or Thrown(error).
\* ------------------------------------------------------------------------

\* The unconditional integer reads of decodeHostAddressState.
HostAddressReads ==
    {<<HOST_REG_LEDGER_OFFSET, 8>>, <<HOST_REG_FEE_OFFSET, 8>>,
     <<HOST_TOT_INS_COUNT_OFFSET, 4>>, <<HOST_ACT_INS_COUNT_OFFSET, 4>>,
     <<HOST_HEARTBEAT_TIMESTAMP_OFFSET, 8>>,
     <<HOST_VERSION_OFFSET, 1>>, <<HOST_VERSION_OFFSET + 1, 1>>, <<HOST_VERSION_OFFSET + 2, 1>>,
     <<HOST_TRANSFER_FLAG_OFFSET, 1>>, <<HOST_LAST_VOTE_CANDIDATE_IDX_OFFSET, 4>>,
     <<HOST_LAST_VOTE_TIMESTAMP_OFFSET, 8>>, <<HOST_SUPPORT_VOTE_FLAG_OFFSET, 1>>}

\* if (stateDataBuf.length > HOST_REG_TIMESTAMP_OFFSET)
HasRegTimestamp(stateDataBuf) == Len(stateDataBuf) > HOST_REG_TIMESTAMP_OFFSET

\* data.registrationTimestamp = Number(stateDataBuf.readBigUInt64BE(...))
RegTimestamp(stateDataBuf) == Number(ReadBigUInt64BE(stateDataBuf, HOST_REG_TIMESTAMP_OFFSET))

decodeHostAddressState(stateKeyBuf, stateDataBuf) ==
    IF ~CanEncodeAccountID(Slice(stateKeyBuf, 12, Len(stateKeyBuf))) THEN Thrown(CodecError)
    ELSE IF ~AllInRange(stateDataBuf, HostAddressReads) THEN Thrown(RangeError)
    ELSE IF HasRegTimestamp(stateDataBuf) /\ ~InRange(stateDataBuf, HOST_REG_TIMESTAMP_OFFSET, 8)
    THEN Thrown(RangeError)
    ELSE LET data ==
               [address |-> EncodeAccountID(Slice(stateKeyBuf, 12, Len(stateKeyBuf))),
                uriTokenId |-> ToHex(Slice(stateDataBuf, HOST_TOKEN_ID_OFFSET, HOST_COUNTRY_CODE_OFFSET)),
                countryCode |-> Slice(stateDataBuf, HOST_COUNTRY_CODE_OFFSET, HOST_RESERVED_OFFSET),
                description |-> RemoveNuls(Slice(stateDataBuf, HOST_DESCRIPTION_OFFSET, HOST_REG_LEDGER_OFFSET)),
                registrationLedger |-> Number(ReadBigUInt64BE(stateDataBuf, HOST_REG_LEDGER_OFFSET)),
                registrationFee |-> Number(ReadBigUInt64BE(stateDataBuf, HOST_REG_FEE_OFFSET)),
                maxInstances |-> ReadUInt32BE(stateDataBuf, HOST_TOT_INS_COUNT_OFFSET),
                activeInstances |-> ReadUInt32BE(stateDataBuf, HOST_ACT_INS_COUNT_OFFSET),
                lastHeartbeatIndex |-> Number(ReadBigUInt64BE(stateDataBuf, HOST_HEARTBEAT_TIMESTAMP_OFFSET)),
                version |-> <<ReadUInt8(stateDataBuf, HOST_VERSION_OFFSET),
                              ReadUInt8(stateDataBuf, HOST_VERSION_OFFSET + 1),
                              ReadUInt8(stateDataBuf, HOST_VERSION_OFFSET + 2)>>,
                isATransferer |-> IF ReadUInt8(stateDataBuf, HOST_TRANSFER_FLAG_OFFSET) = PENDING_TRANSFER
                                  THEN TRANSFER_STATES.HAS_A_TRANSFER ELSE TRANSFER_STATES.NO_TRANSFER,
                lastVoteCandidateIdx |-> ReadUInt32BE(stateDataBuf, HOST_LAST_VOTE_CANDIDATE_IDX_OFFSET),
                lastVoteTimestamp |-> Number(ReadBigUInt64BE(stateDataBuf, HOST_LAST_VOTE_TIMESTAMP_OFFSET)),
                supportVoteSent |-> ReadUInt8(stateDataBuf, HOST_SUPPORT_VOTE_FLAG_OFFSET)]
         IN IF HasRegTimestamp(stateDataBuf)
            THEN Returned(data @@ [registrationTimestamp |-> RegTimestamp(stateDataBuf)])
            ELSE Returned(data)

TokenIdReads ==
    {<<HOST_CPU_COUNT_OFFSET, 2>>, <<HOST_CPU_SPEED_OFFSET, 2>>, <<HOST_CPU_MICROSEC_OFFSET, 4>>,
     <<HOST_RAM_MB_OFFSET, 4>>, <<HOST_DISK_MB_OFFSET, 4>>}

decodeTokenIdState(stateDataBuf) ==
    IF ~CanEncodeAccountID(Slice(stateDataBuf, HOST_ADDRESS_OFFSET, HOST_CPU_MODEL_NAME_OFFSET))
    THEN Thrown(CodecError)
    ELSE IF ~AllInRange(stateDataBuf, TokenIdReads) THEN Thrown(RangeError)
    ELSE Returned(
        [address |-> EncodeAccountID(Slice(stateDataBuf, HOST_ADDRESS_OFFSET, HOST_CPU_MODEL_NAME_OFFSET)),
         cpuModelName |-> TrimTrailingNuls(Slice(stateDataBuf, HOST_CPU_MODEL_NAME_OFFSET, HOST_CPU_COUNT_OFFSET)),
         cpuCount |-> ReadUInt16BE(stateDataBuf, HOST_CPU_COUNT_OFFSET),
         cpuMHz |-> ReadUInt16BE(stateDataBuf, HOST_CPU_SPEED_OFFSET),
         cpuMicrosec |-> ReadUInt32BE(stateDataBuf, HOST_CPU_MICROSEC_OFFSET),
         ramMb |-> ReadUInt32BE(stateDataBuf, HOST_RAM_MB_OFFSET),
         diskMb |-> ReadUInt32BE(stateDataBuf, HOST_DISK_MB_OFFSET),
         email |-> RemoveNuls(Slice(stateDataBuf, HOST_EMAIL_ADDRESS_OFFSET,
                                    HOST_EMAIL_ADDRESS_OFFSET + HOST_EMAIL_ADDRESS_LEN))])

decodeTransfereeAddrState(stateKeyBuf, stateDataBuf) ==
    IF ~CanEncodeAccountID(Slice(stateDataBuf, PREV_HOST_ADDRESS_OFFSET, TRANSFER_LEDGER_IDX_OFFSET))
    THEN Thrown(CodecError)
    ELSE IF ~CanEncodeAccountID(Slice(stateKeyBuf, 12, Len(stateKeyBuf))) THEN Thrown(CodecError)
    ELSE IF ~InRange(stateDataBuf, TRANSFER_LEDGER_IDX_OFFSET, 8) THEN Thrown(RangeError)
    ELSE LET prevHostClassicAddress ==
                 EncodeAccountID(Slice(stateDataBuf, PREV_HOST_ADDRESS_OFFSET, TRANSFER_LEDGER_IDX_OFFSET))
         IN Returned(
              [futureOwnerAddress |-> EncodeAccountID(Slice(stateKeyBuf, 12, Len(stateKeyBuf))),
               prevHostAddressKey |-> generateHostAddrStateKey(prevHostClassicAddress),
               prevHostAddress |-> prevHostClassicAddress,
               transferLedgerIdx |-> Number(ReadBigUInt64BE(stateDataBuf, TRANSFER_LEDGER_IDX_OFFSET)),
               transferredNfTokenId |-> ToHex(Slice(stateDataBuf, TRANSFERRED_NFT_ID_OFFSET, 60))])

decodeCandidateOwnerState(stateKeyBuf, stateDataBuf) ==
    IF ~CanEncodeAccountID(Slice(stateKeyBuf, 12, Len(stateKeyBuf))) THEN Thrown(CodecError)
    ELSE Returned(
        [ownerAddress |-> EncodeAccountID(Slice(stateKeyBuf, 12, Len(stateKeyBuf))),
         uniqueId |-> getNewHookCandidateId(stateDataBuf),
         governorHookHash |-> ToHex(Slice(stateDataBuf, CANDIDATE_GOVERNOR_HOOK_HASH_OFFSET,
                                          CANDIDATE_REGISTRY_HOOK_HASH_OFFSET)),
         registryHookHash |-> ToHex(Slice(stateDataBuf, CANDIDATE_REGISTRY_HOOK_HASH_OFFSET,
                                          CANDIDATE_HEARTBEAT_HOOK_HASH_OFFSET)),
         heartbeatHookHash |-> ToHex(Slice(stateDataBuf, CANDIDATE_HEARTBEAT_HOOK_HASH_OFFSET,
                                           CANDIDATE_HEARTBEAT_HOOK_HASH_OFFSET + 32))])

\* The switch on the status byte of decodeCandidateIdState.
CandidateStatusName_DefaultExpired(byte) ==
    IF byte = CandidateStatuses.CANDIDATE_SUPPORTED THEN "supported"
    ELSE IF byte = CandidateStatuses.CANDIDATE_ELECTED THEN "elected"
    ELSE IF byte = CandidateStatuses.CANDIDATE_VETOED THEN "vetoed"
    ELSE "expired"

CandidateStatusName(byte) ==
    IF byte = CandidateStatuses.CANDIDATE_SUPPORTED THEN "supported"
    ELSE IF byte = CandidateStatuses.CANDIDATE_ELECTED THEN "elected"
    ELSE IF byte = CandidateStatuses.CANDIDATE_VETOED THEN "vetoed"
    ELSE IF byte = CandidateStatuses.CANDIDATE_EXPIRED THEN "expired"
    ELSE "rejected"

CandidateIdReads ==
    {<<CANDIDATE_STATUS_OFFSET, 1>>, <<CANDIDATE_IDX_OFFSET, 4>>,
     <<CANDIDATE_CREATED_TIMESTAMP_OFFSET, 8>>, <<CANDIDATE_PROPOSAL_FEE_OFFSET, 8>>,
     <<CANDIDATE_POSITIVE_VOTE_COUNT_OFFSET, 4>>, <<CANDIDATE_LAST_VOTE_TIMESTAMP_OFFSET, 8>>,
     <<CANDIDATE_STATUS_CHANGE_TIMESTAMP_OFFSET, 8>>, <<CANDIDATE_FOUNDATION_VOTE_STATUS_OFFSET, 1>>}

decodeCandidateIdState(stateDataBuf) ==
    IF ~InRange(stateDataBuf, CANDIDATE_STATUS_OFFSET, 1) THEN Thrown(RangeError)
    ELSE IF ~CanEncodeAccountID(Slice(stateDataBuf, CANDIDATE_OWNER_ADDRESS_OFFSET, CANDIDATE_IDX_OFFSET))
    THEN Thrown(CodecError)
    ELSE IF ~AllInRange(stateDataBuf, CandidateIdReads) THEN Thrown(RangeError)
    ELSE Returned(
        [ownerAddress |-> EncodeAccountID(Slice(stateDataBuf, CANDIDATE_OWNER_ADDRESS_OFFSET, CANDIDATE_IDX_OFFSET)),
         index |-> ReadUInt32BE(stateDataBuf, CANDIDATE_IDX_OFFSET),
         shortName |-> TrimTrailingNuls(Slice(stateDataBuf, CANDIDATE_SHORT_NAME_OFFSET,
                                              CANDIDATE_CREATED_TIMESTAMP_OFFSET)),
         createdTimestamp |-> Number(ReadBigUInt64BE(stateDataBuf, CANDIDATE_CREATED_TIMESTAMP_OFFSET)),
         proposalFee |-> XflToString(ReadBigUInt64BE(stateDataBuf, CANDIDATE_PROPOSAL_FEE_OFFSET)),
         positiveVoteCount |-> ReadUInt32BE(stateDataBuf, CANDIDATE_POSITIVE_VOTE_COUNT_OFFSET),
         lastVoteTimestamp |-> Number(ReadBigUInt64BE(stateDataBuf, CANDIDATE_LAST_VOTE_TIMESTAMP_OFFSET)),
         status |-> CandidateStatusName(ReadUInt8(stateDataBuf, CANDIDATE_STATUS_OFFSET)),
         statusChangeTimestamp |-> Number(ReadBigUInt64BE(stateDataBuf, CANDIDATE_STATUS_CHANGE_TIMESTAMP_OFFSET)),
         foundationVoteStatus |->
             IF ReadUInt8(stateDataBuf, CANDIDATE_FOUNDATION_VOTE_STATUS_OFFSET)
                    = CandidateStatuses.CANDIDATE_SUPPORTED
             THEN "supported" ELSE "rejected"])

\* ------------------------------------------------------------------------
\* decodeStateData.
\* ------------------------------------------------------------------------

\* { type, key, ...extra, ...decoded }: a throwing entity decoder makes the
\* whole call throw.
Entity(type, hexKey, extra, decoded) ==
    IF decoded.status = "thrown" THEN decoded
    ELSE Returned(decoded.value @@ extra @@ [type |-> type, key |-> hexKey])

\* { type, key, value } once every read of the value is inside the buffer.
Valued(type, hexKey, stateData, reads, value) ==
    IF ~AllInRange(stateData, reads) THEN Thrown(RangeError)
    ELSE Returned([type |-> type, key |-> hexKey, value |-> value])

\* addressKey of the token id branch.
TokenAddressKey(stateData) ==
    ToHex(Copy(stateData, Copy(HookStateKeys.PREFIX_HOST_ADDR, Zeros(32), 0, 0, 4),
               12, HOST_ADDRESS_OFFSET, HOST_CPU_MODEL_NAME_OFFSET))

\* idKey of the candidate owner branch.
CandidateIdKey(uniqueId) ==
    ToHex(Copy(FromHex(uniqueId), Copy(HookStateKeys.PREFIX_CANDIDATE_ID, Zeros(32), 0, 0, 4),
               4, 4, 32))

\* The length-conditional fields of MOMENT_BASE_INFO.
HasBaseTransitionMoment_Always(stateData) == TRUE

HasBaseTransitionMoment(stateData) == Len(stateData) > MOMENT_AT_TRANSITION_OFFSET

BaseTransitionMoment(stateData) ==
    IF HasBaseTransitionMoment(stateData)
    THEN ReadUInt32BE(stateData, MOMENT_AT_TRANSITION_OFFSET) ELSE <<0, 0>>

BaseMomentType(stateData) ==
    IF Len(stateData) <= MOMENT_TYPE_OFFSET
           \/ ReadUInt8(stateData, MOMENT_TYPE_OFFSET) = MOMENT_TYPES.LEDGER
    THEN "ledger" ELSE "timestamp"

MomentBaseInfoReads(stateData) ==
    {<<MOMENT_BASE_POINT_OFFSET, 8>>}
        \cup (IF HasBaseTransitionMoment(stateData) THEN {<<MOMENT_AT_TRANSITION_OFFSET, 4>>} ELSE {})

\* The moment type of MOMENT_TRANSIT_INFO.
TransitMomentType(stateData) ==
    IF ReadUInt8(stateData, TRANSIT_MOMENT_TYPE_OFFSET) = MOMENT_TYPES.LEDGER
    THEN "ledger" ELSE "timestamp"

GovernanceModeName(byte) ==
    IF byte = GovernanceModes.Piloted THEN "piloted"
    ELSE IF byte = GovernanceModes.CoPiloted THEN "co-piloted"
    ELSE IF byte = GovernanceModes.AutoPiloted THEN "auto-piloted"
    ELSE "undefined"

decodeStateData(stateKey, stateData) ==
    LET hexKey == ToHex(stateKey) IN
    IF HasPrefix("PREFIX_HOST_ADDR", stateKey)
    THEN Entity(StateTypes.HOST_ADDR, hexKey, <<>>, decodeHostAddressState(stateKey, stateData))
    ELSE IF HasPrefix("PREFIX_HOST_TOKENID", stateKey)
    THEN IF Len(stateData) < HOST_ADDRESS_OFFSET THEN Thrown(RangeError)
         ELSE Entity(StateTypes.TOKEN_ID, hexKey, [addressKey |-> TokenAddressKey(stateData)],
                     decodeTokenIdState(stateData))
    ELSE IF HasPrefix("PREFIX_TRANSFEREE_ADDR", stateKey)
    THEN Entity(StateTypes.TRANSFEREE_ADDR, hexKey, <<>>, decodeTransfereeAddrState(stateKey, stateData))
    ELSE IF HasPrefix("PREFIX_CANDIDATE_OWNER", stateKey)
    THEN LET decoded == decodeCandidateOwnerState(stateKey, stateData) IN
         IF decoded.status = "thrown" THEN decoded
         ELSE Entity(StateTypes.CANDIDATE_OWNER, hexKey,
                     [idKey |-> CandidateIdKey(decoded.value.uniqueId)], decoded)
    ELSE IF HasPrefix("PREFIX_CANDIDATE_ID", stateKey)
    THEN Entity(StateTypes.CANDIDATE_ID, hexKey, <<>>, decodeCandidateIdState(stateData))
    ELSE IF IsKey("HOST_COUNT", stateKey)
    THEN Valued(StateTypes.SIGLETON, hexKey, stateData, {<<0, 4>>}, ReadUInt32BE(stateData, 0))
    ELSE IF IsKey("MOMENT_BASE_INFO", stateKey)
    THEN Valued(StateTypes.SIGLETON, hexKey, stateData, MomentBaseInfoReads(stateData),
                [baseIdx |-> Number(ReadBigUInt64BE(stateData, MOMENT_BASE_POINT_OFFSET)),
                 baseTransitionMoment |-> BaseTransitionMoment(stateData),
                 momentType |-> BaseMomentType(stateData)])
    ELSE IF IsKey("HOST_REG_FEE", stateKey) \/ IsKey("MAX_REG", stateKey)
    THEN Valued(StateTypes.SIGLETON, hexKey, stateData, {<<0, 8>>},
                Number(ReadBigUInt64BE(stateData, 0)))
    ELSE IF \/ IsKey("REGISTRY_ADDR", stateKey)
            \/ IsKey("HEARTBEAT_ADDR", stateKey)
            \/ IsKey("EVR_ISSUER_ADDR", stateKey)
            \/ IsKey("FOUNDATION_ADDR", stateKey)
    THEN IF ~CanEncodeAccountID(stateData) THEN Thrown(CodecError)
         ELSE Returned([type |-> StateTypes.CONFIGURATION, key |-> hexKey,
                        value |-> EncodeAccountID(stateData)])
    ELSE IF \/ IsKey("MOMENT_SIZE", stateKey)
            \/ IsKey("HOST_HEARTBEAT_FREQ", stateKey)
            \/ IsKey("LEASE_ACQUIRE_WINDOW", stateKey)
    THEN Valued(StateTypes.CONFIGURATION, hexKey, stateData, {<<0, 2>>}, ReadUInt16BE(stateData, 0))
    ELSE IF IsKey("MINT_LIMIT", stateKey) \/ IsKey("FIXED_REG_FEE", stateKey)
    THEN Valued(StateTypes.CONFIGURATION, hexKey, stateData, {<<0, 8>>},
                Number(ReadBigUInt64BE(stateData, 0)))
    ELSE IF IsKey("REWARD_CONFIGURATION", stateKey)
    THEN Valued(StateTypes.CONFIGURATION, hexKey, stateData,
                {<<EPOCH_COUNT_OFFSET, 1>>, <<FIRST_EPOCH_REWARD_QUOTA_OFFSET, 4>>,
                 <<EPOCH_REWARD_AMOUNT_OFFSET, 4>>, <<REWARD_START_MOMENT_OFFSET, 4>>},
                [epochCount |-> ReadUInt8(stateData, EPOCH_COUNT_OFFSET),
                 firstEpochRewardQuota |-> ReadUInt32BE(stateData, FIRST_EPOCH_REWARD_QUOTA_OFFSET),
                 epochRewardAmount |-> ReadUInt32BE(stateData, EPOCH_REWARD_AMOUNT_OFFSET),
                 rewardStartMoment |-> ReadUInt32BE(stateData, REWARD_START_MOMENT_OFFSET)])
    ELSE IF IsKey("REWARD_INFO", stateKey)
    THEN Valued(StateTypes.SIGLETON, hexKey, stateData,
                {<<EPOCH_OFFSET, 1>>, <<SAVED_MOMENT_OFFSET, 4>>,
                 <<PREV_MOMENT_ACTIVE_HOST_COUNT_OFFSET, 4>>,
                 <<CUR_MOMENT_ACTIVE_HOST_COUNT_OFFSET, 4>>, <<EPOCH_POOL_OFFSET, 8>>},
                [epoch |-> ReadUInt8(stateData, EPOCH_OFFSET),
                 savedMoment |-> ReadUInt32BE(stateData, SAVED_MOMENT_OFFSET),
                 prevMomentActiveHostCount |-> ReadUInt32BE(stateData, PREV_MOMENT_ACTIVE_HOST_COUNT_OFFSET),
                 curMomentActiveHostCount |-> ReadUInt32BE(stateData, CUR_MOMENT_ACTIVE_HOST_COUNT_OFFSET),
                 epochPool |-> XflToString(ReadBigUInt64BE(stateData, EPOCH_POOL_OFFSET))])
    ELSE IF IsKey("MAX_TOLERABLE_DOWNTIME", stateKey)
    THEN Valued(StateTypes.CONFIGURATION, hexKey, stateData, {<<0, 2>>}, ReadUInt16BE(stateData, 0))
    ELSE IF IsKey("MOMENT_TRANSIT_INFO", stateKey)
    THEN Valued(StateTypes.CONFIGURATION, hexKey, stateData,
                {<<TRANSIT_IDX_OFFSET, 8>>, <<TRANSIT_MOMENT_SIZE_OFFSET, 2>>,
                 <<TRANSIT_MOMENT_TYPE_OFFSET, 1>>},
                [transitionIndex |-> Number(ReadBigUInt64BE(stateData, TRANSIT_IDX_OFFSET)),
                 momentSize |-> ReadUInt16BE(stateData, TRANSIT_MOMENT_SIZE_OFFSET),
                 momentType |-> TransitMomentType(stateData)])
    ELSE IF IsKey("MAX_TRX_EMISSION_FEE", stateKey)
    THEN Valued(StateTypes.CONFIGURATION, hexKey, stateData, {<<0, 8>>},
                Number(ReadBigUInt64BE(stateData, 0)))
    ELSE IF IsKey("GOVERNANCE_CONFIGURATION", stateKey)
    THEN Valued(StateTypes.CONFIGURATION, hexKey, stateData,
                {<<ELIGIBILITY_PERIOD_OFFSET, 4>>, <<CANDIDATE_LIFE_PERIOD_OFFSET, 4>>,
                 <<CANDIDATE_ELECTION_PERIOD_OFFSET, 4>>, <<CANDIDATE_SUPPORT_AVERAGE_OFFSET, 2>>},
                [eligibilityPeriod |-> ReadUInt32BE(stateData, ELIGIBILITY_PERIOD_OFFSET),
                 candidateLifePeriod |-> ReadUInt32BE(stateData, CANDIDATE_LIFE_PERIOD_OFFSET),
                 candidateElectionPeriod |-> ReadUInt32BE(stateData, CANDIDATE_ELECTION_PERIOD_OFFSET),
                 candidateSupportAverage |-> ReadUInt16BE(stateData, CANDIDATE_SUPPORT_AVERAGE_OFFSET)])
    ELSE IF IsKey("GOVERNANCE_INFO", stateKey)
    THEN Valued(StateTypes.CONFIGURATION, hexKey, stateData,
                {<<GOVERNANCE_MODE_OFFSET, 1>>, <<LAST_CANDIDATE_IDX_OFFSET, 4>>,
                 <<VOTER_BASE_COUNT_OFFSET, 4>>, <<VOTER_BASE_COUNT_CHANGED_TIMESTAMP_OFFSET, 8>>,
                 <<FOUNDATION_LAST_VOTED_CANDIDATE_IDX, 4>>,
                 <<FOUNDATION_LAST_VOTED_TIMESTAMP_OFFSET, 8>>,
                 <<ELECTED_PROPOSAL_UNIQUE_ID_OFFSET, 4>>, <<PROPOSAL_ELECTED_TIMESTAMP_OFFSET, 8>>,
                 <<UPDATED_HOOK_COUNT_OFFSET, 1>>, <<FOUNDATION_SUPPORT_VOTE_FLAG_OFFSET, 1>>},
                [governanceMode |-> GovernanceModeName(ReadUInt8(stateData, GOVERNANCE_MODE_OFFSET)),
                 lastCandidateIdx |-> ReadUInt32BE(stateData, LAST_CANDIDATE_IDX_OFFSET),
                 voteBaseCount |-> ReadUInt32BE(stateData, VOTER_BASE_COUNT_OFFSET),
                 voteBaseCountChangedTimestamp |->
                     Number(ReadBigUInt64BE(stateData, VOTER_BASE_COUNT_CHANGED_TIMESTAMP_OFFSET)),
                 foundationLastVotedCandidateIdx |-> ReadUInt32BE(stateData, FOUNDATION_LAST_VOTED_CANDIDATE_IDX),
                 foundationLastVotedTimestamp |->
                     Number(ReadBigUInt64BE(stateData, FOUNDATION_LAST_VOTED_TIMESTAMP_OFFSET)),
                 electedProposalUniqueId |-> ReadUInt32BE(stateData, ELECTED_PROPOSAL_UNIQUE_ID_OFFSET),
                 proposalElectedTimestamp |->
                     Number(ReadBigUInt64BE(stateData, PROPOSAL_ELECTED_TIMESTAMP_OFFSET)),
                 updatedHookCount |-> ReadUInt8(stateData, UPDATED_HOOK_COUNT_OFFSET),
                 supportVoteSent |-> ReadUInt8(stateData, FOUNDATION_SUPPORT_VOTE_FLAG_OFFSET)])
    ELSE Thrown(ValidationError)

\* ------------------------------------------------------------------------
\* Lease URIs.  Text is a sequence of character codes.
\* ------------------------------------------------------------------------

\* EvernodeConstants.LEASE_TOKEN_PREFIX_HEX of evernode-common: 'evrlease'.
LEASE_TOKEN_PREFIX_HEX == ToHex(<<101, 118, 114, 108, 101, 97, 115, 101>>)

\* TransactionHelper.hexToASCII(hex): one character per pair of hex digits.
hexToASCII(hex) == [k \in 1..(Len(hex) \div 2) |-> hex[2 * k - 1] * 16 + hex[2 * k]]

\* The 6-bit value of a base64 character; -1 for any other character.
Base64Value(c) ==
    IF c >= 65 /\ c <= 90 THEN c - 65
    ELSE IF c >= 97 /\ c <= 122 THEN c - 71
    ELSE IF c >= 48 /\ c <= 57 THEN c + 4
    ELSE IF c = 43 THEN 62
    ELSE IF c = 47 THEN 63
    ELSE -1

\* The characters before the first '=', without the ones outside the alphabet.
RECURSIVE Base64Sextets(_)
Base64Sextets(text) ==
    IF text = <<>> \/ Head(text) = 61 THEN <<>>
    ELSE IF Base64Value(Head(text)) < 0 THEN Base64Sextets(Tail(text))
    ELSE <<Base64Value(Head(text))>> \o Base64Sextets(Tail(text))

\* Buffer.from(text, 'base64')
Base64Decode(text) ==
    LET sextets == Base64Sextets(text) IN
    [k \in 1..((Len(sextets) * 6) \div 8) |->
        LET bit == 8 * (k - 1)
            at == bit \div 6
            shift == 4 - (bit % 6)
        IN ((sextets[at + 1] * 64 + sextets[at + 2]) \div 2^shift) % 256]

\* const uriBuf of decodeLeaseTokenUri, and a decoding that skips the base64 step.
TokenUriBuf_SkipBase64(hexUri) == hexToASCII(hexUri)

TokenUriBuf(hexUri) == Base64Decode(hexToASCII(hexUri))

\* const uriBuf of decodeLeaseNftUri.
NftUriBuf(hexUri) == FromHex(hexUri)

ParseFloat(text) == [float |-> text]

halfToSLen == 16

\* The object both lease URI decoders build from uriBuf.
LeaseDescriptor(uriBuf) ==
    LET prefixLen == Len(LEASE_TOKEN_PREFIX_HEX) \div 2 IN
    IF ~InRange(uriBuf, prefixLen, 2) THEN Thrown(RangeError)
    ELSE IF ~InRange(uriBuf, prefixLen + 2 + halfToSLen, 8) THEN Thrown(RangeError)
    ELSE Returned(
        [leaseIndex |-> ReadUInt16BE(uriBuf, prefixLen),
         halfTos |-> Slice(uriBuf, prefixLen + 2, halfToSLen),
         leaseAmount |-> ParseFloat(XflToString(ReadBigUInt64BE(uriBuf, prefixLen + 2 + halfToSLen)))])

decodeLeaseNftUri(hexUri) == LeaseDescriptor(NftUriBuf(hexUri))

decodeLeaseTokenUri(hexUri) == LeaseDescriptor(TokenUriBuf(hexUri))

\* ------------------------------------------------------------------------
\* The calls: each function applied once to arguments drawn from small sets.
\* ------------------------------------------------------------------------

DataSeeds == {0, 1}

\* A data buffer of the given length: all zero (seed 0) or counting bytes.
DataBuf(len, seed) == [k \in 1..len |-> (seed * k) % 256]

DataBufs == {DataBuf(len, seed) : len \in 0..MaxDataLen, seed \in DataSeeds}

\* A 20-byte account id and its address.
AccountId(seed) == [k \in 1..20 |-> (seed + 7 * k) % 256]
Addresses == {EncodeAccountID(AccountId(seed)) : seed \in {0, 200}}
AllAddresses == {EncodeAccountID(AccountId(seed)) : seed \in 0..255}

\* 32-byte state keys: one per entity kind, the well-known keys, and keys
\* that are none of them.
EntityKeys ==
    {EVERNODE_PREFIX \o <<t>> \o Zeros(8) \o DecodeAccountID(a) :
        t \in {STATE_KEY_TYPES[n] : n \in DOMAIN STATE_KEY_TYPES}, a \in Addresses}
WellKnownKeys ==
    {HookStateKeys[n] : n \in {m \in DOMAIN HookStateKeys : Len(HookStateKeys[m]) = 32}}
UnknownKeys ==
    {EVERNODE_PREFIX \o <<9>> \o Zeros(28), ConfigurationKey(99), SingletonKey(1),
     Zeros(32), [k \in 1..32 |-> 255]}
StateKeys == EntityKeys \cup WellKnownKeys \cup UnknownKeys

\* Candidate-id records that differ in the status byte only.
CandidateIdData(status) ==
    [DataBuf(CANDIDATE_FOUNDATION_VOTE_STATUS_OFFSET + 1, 1) EXCEPT ![CANDIDATE_STATUS_OFFSET + 1] = status]

\* The bytes of a lease URI: the prefix, then index, hash and amount bytes.
LeaseUriBytes(len, seed) ==
    [k \in 1..len |->
        IF k <= Len(LEASE_TOKEN_PREFIX_HEX) \div 2
        THEN FromHex(LEASE_TOKEN_PREFIX_HEX)[k]
        ELSE (seed + 29 * k) % 256]
\* The length of the documented layout: prefix, index, 16 hash bytes, amount.
LeaseUriLen == Len(LEASE_TOKEN_PREFIX_HEX) \div 2 + 2 + 16 + 8
LeaseUris ==
    {LeaseUriBytes(len, seed) : len \in 0..(LeaseUriLen + MaxUriExtra), seed \in {0, 101}}

\* The two physical encodings of a URI: hex of the bytes, and hex of the
\* ASCII text of their base64 form.
Base64Char(v) ==
    IF v < 26 THEN v + 65 ELSE IF v < 52 THEN v + 71 ELSE IF v < 62 THEN v - 4
    ELSE IF v = 62 THEN 43 ELSE 47
Base64Encode(bytes) ==
    LET n == Len(bytes)
        sextets == (8 * n + 5) \div 6
        byte(k) == IF k <= n THEN bytes[k] ELSE 0
    IN [j \in 1..(4 * ((n + 2) \div 3)) |->
           IF j > sextets THEN 61
           ELSE LET bit == 6 * (j - 1)
                    at == bit \div 8
                    shift == 10 - (bit % 8)
                IN Base64Char(((byte(at + 1) * 256 + byte(at + 2)) \div 2^shift) % 64)]
RawEncoding(bytes) == ToHex(bytes)
TextEncoding(bytes) == ToHex(Base64Encode(bytes))

CandidateIds ==
    {getNewHookCandidateId(h) : h \in {DataBuf(len, 1) : len \in {0, 32, 96}}}
        \cup {getPilotedModeCandidateId}
        \cup {getDudHostCandidateId(a) : a \in Addresses}

Calls ==
    [fn : {"decodeStateData"}, stateKey : StateKeys, stateData : DataBufs]
        \cup [fn : {"decodeStateKey"}, stateKey : StateKeys]
        \cup [fn : {"decodeHostAddressState"}, stateKeyBuf : EntityKeys, stateDataBuf : DataBufs]
        \cup [fn : {"decodeCandidateIdState"}, stateDataBuf : {CandidateIdData(b) : b \in 0..255}]
        \cup [fn : {"generateHostAddrStateKey"}, address : AllAddresses]
        \cup [fn : {"getNewHookCandidateId"}, hashesBuf : DataBufs]
        \cup [fn : {"getPilotedModeCandidateId"}]
        \cup [fn : {"getDudHostCandidateId"}, hostAddress : AllAddresses]
        \cup [fn : {"getCandidateType"}, candidateId : CandidateIds]
        \cup [fn : {"decodeLeaseNftUri"}, hexUri : {RawEncoding(u) : u \in LeaseUris}]
        \cup [fn : {"decodeLeaseTokenUri"}, hexUri : {TextEncoding(u) : u \in LeaseUris}]

CodecInit ==
    /\ pc = "idle"
    /\ kind = "none"
    /\ tx = [id |-> UNDEF]
    /\ failTimeout = [state |-> "none", delay |-> 0]
    /\ rejected = FALSE
    /\ relevantTx = NullEvent
    /\ txLen = 0
    /\ i = 0
    /\ res = NullEvent
    /\ promise = PendingPromise
    /\ settleCalls = 0
    /\ outstanding = 0
    /\ unhandled = UNDEF
    /\ polls = 0
    /\ cin \in Calls
    /\ cout = NoOutcome

\* The variables of a watch, which no codec function touches.
watchVars == <<pc, kind, tx, failTimeout, rejected, relevantTx, txLen, i, res,
               promise, settleCalls, outstanding, unhandled, polls>>

\* The drawn call is a call of fn and has not ended yet.
Called(fn) == cin.fn = fn /\ cout = NoOutcome

DecodeStateData ==
    /\ Called("decodeStateData")
    /\ cout' = decodeStateData(cin.stateKey, cin.stateData)
    /\ UNCHANGED <<watchVars, cin>>

DecodeStateKey ==
    /\ Called("decodeStateKey")
    /\ cout' = decodeStateKey(cin.stateKey)
    /\ UNCHANGED <<watchVars, cin>>

DecodeHostAddressState ==
    /\ Called("decodeHostAddressState")
    /\ cout' = decodeHostAddressState(cin.stateKeyBuf, cin.stateDataBuf)
    /\ UNCHANGED <<watchVars, cin>>

DecodeCandidateIdState ==
    /\ Called("decodeCandidateIdState")
    /\ cout' = decodeCandidateIdState(cin.stateDataBuf)
    /\ UNCHANGED <<watchVars, cin>>

GenerateHostAddrStateKey ==
    /\ Called("generateHostAddrStateKey")
    /\ cout' = Returned(generateHostAddrStateKey(cin.address))
    /\ UNCHANGED <<watchVars, cin>>

GetNewHookCandidateId ==
    /\ Called("getNewHookCandidateId")
    /\ cout' = Returned(getNewHookCandidateId(cin.hashesBuf))
    /\ UNCHANGED <<watchVars, cin>>

GetPilotedModeCandidateId ==
    /\ Called("getPilotedModeCandidateId")
    /\ cout' = Returned(getPilotedModeCandidateId)
    /\ UNCHANGED <<watchVars, cin>>

GetDudHostCandidateId ==
    /\ Called("getDudHostCandidateId")
    /\ cout' = Returned(getDudHostCandidateId(cin.hostAddress))
    /\ UNCHANGED <<watchVars, cin>>

GetCandidateType ==
    /\ Called("getCandidateType")
    /\ cout' = Returned(getCandidateType(cin.candidateId))
    /\ UNCHANGED <<watchVars, cin>>

DecodeLeaseNftUri ==
    /\ Called("decodeLeaseNftUri")
    /\ cout' = decodeLeaseNftUri(cin.hexUri)
    /\ UNCHANGED <<watchVars, cin>>

DecodeLeaseTokenUri ==
    /\ Called("decodeLeaseTokenUri")
    /\ cout' = decodeLeaseTokenUri(cin.hexUri)
    /\ UNCHANGED <<watchVars, cin>>

CodecNext ==
    \/ DecodeStateData
    \/ DecodeStateKey
    \/ DecodeHostAddressState
    \/ DecodeCandidateIdState
    \/ GenerateHostAddrStateKey
    \/ GetNewHookCandidateId
    \/ GetPilotedModeCandidateId
    \/ GetDudHostCandidateId
    \/ GetCandidateType
    \/ DecodeLeaseNftUri
    \/ DecodeLeaseTokenUri

CodecSpec == CodecInit /\ [][CodecNext]_vars

\* Every call ends: with a value or with an error.
CodecTypeOK ==
    /\ cin \in Calls
    /\ cout = NoOutcome \/ cout.status \in {"returned", "thrown"}

\* ------------------------------------------------------------------------
\* Claims about the state codec.
\* ------------------------------------------------------------------------

\* A key some kind recognises: one of the five entity prefixes in its first
\* four bytes, or the exact bytes of a well-known key.
KnownPrefixes ==
    {<<69, 86, 82, t>> : t \in {2, 3, 4, 5, 6}}
Recognized(stateKey) == SubSeq(stateKey, 1, 4) \in KnownPrefixes \/ stateKey \in WellKnownKeys
Ended == cout # NoOutcome
FailedWith(message) ==
    /\ cout.status = "thrown"
    /\ "message" \in DOMAIN cout.error
    /\ cout.error.message = message

\* ------------------------------------------------------------------------
\* C11: a key that matches no prefix and no well-known key makes both
\* decodeStateData and decodeStateKey fail with 'Invalid state key.'; no
\* kind is assumed for it.
\* ------------------------------------------------------------------------
C11_UnknownKeysFailClosed ==
    (/\ cin.fn \in {"decodeStateData", "decodeStateKey"}
     /\ Ended
     /\ ~Recognized(cin.stateKey))
        => FailedWith("Invalid state key.")

\* The 64-bit big-endian value at an offset, as four 16-bit digits.
BigEndian64(buf, offset) ==
    [d \in 1..4 |-> 256 * buf[offset + 2 * d - 1] + buf[offset + 2 * d]]
HasField(name) == cout.status = "returned" /\ name \in DOMAIN cout.value
LacksField(name) == cout.status = "returned" /\ name \notin DOMAIN cout.value

\* The end of the last field every host-address record has.
HostMandatoryLen == HOST_SUPPORT_VOTE_FLAG_OFFSET + 1

\* ------------------------------------------------------------------------
\* C12: decodeHostAddressState on a data buffer of exactly the mandatory
\* minimum length returns a record without registrationTimestamp; on a
\* buffer at least 8 bytes longer the record's registrationTimestamp is the
\* big-endian 64-bit value at the registration timestamp offset.
\* ------------------------------------------------------------------------
C12_RegTimestampByLength ==
    (cin.fn = "decodeHostAddressState" /\ Ended) =>
        /\ Len(cin.stateDataBuf) = HostMandatoryLen => LacksField("registrationTimestamp")
        /\ Len(cin.stateDataBuf) >= HostMandatoryLen + 8 =>
               /\ HasField("registrationTimestamp")
               /\ cout.value.registrationTimestamp
                      = BigEndian64(cin.stateDataBuf, HOST_REG_TIMESTAMP_OFFSET)

\* The call decodes a record of the given well-known key.
DecodesKey(name) == cin.fn = "decodeStateData" /\ cin.stateKey = HookStateKeys[name]
\* The call decodes a host-address record, directly or through decodeStateData.
DecodesHostAddress ==
    \/ cin.fn = "decodeHostAddressState"
    \/ cin.fn = "decodeStateData" /\ SubSeq(cin.stateKey, 1, 4) = <<69, 86, 82, 3>>
DataLen ==
    IF cin.fn = "decodeStateData" THEN Len(cin.stateData) ELSE Len(cin.stateDataBuf)

EntityTag ==
    IF cin.fn = "decodeStateData" /\ SubSeq(cin.stateKey, 1, 4) \in KnownPrefixes
    THEN cin.stateKey[4] ELSE 0
MandatoryLen(tag) ==
    CASE tag = 2 -> HOST_EMAIL_ADDRESS_OFFSET + HOST_EMAIL_ADDRESS_LEN
      [] tag = 3 -> HOST_SUPPORT_VOTE_FLAG_OFFSET + 1
      [] tag = 4 -> TRANSFERRED_NFT_ID_OFFSET + 32
      [] tag = 5 -> CANDIDATE_HEARTBEAT_HOOK_HASH_OFFSET + 32
      [] tag = 6 -> CANDIDATE_FOUNDATION_VOTE_STATUS_OFFSET + 1

\* ------------------------------------------------------------------------
\* C14: decodeStateData on a data buffer shorter than the mandatory length
\* of the key's kind fails and returns no record (for example a candidate
\* owner record from fewer than 96 data bytes).
\* ------------------------------------------------------------------------
C14_ShortBufferFails ==
    (Ended /\ EntityTag # 0 /\ DataLen < MandatoryLen(EntityTag)) => cout.status = "thrown"

\* ------------------------------------------------------------------------
\* C15: decodeLeaseNftUri on the hex of the bytes and decodeLeaseTokenUri on
\* the hex of the ASCII base64 text of the same bytes return identical
\* descriptors (leaseIndex, halfTos, leaseAmount), for every buffer long
\* enough to decode.
\* ------------------------------------------------------------------------
C15_LeaseEncodingsAgree ==
    /\ (cin.fn = "decodeLeaseTokenUri" /\ Ended) =>
           \A u \in LeaseUris :
               (Len(u) >= LeaseUriLen /\ cin.hexUri = TextEncoding(u)) =>
                   /\ cout.status = "returned"
                   /\ cout = decodeLeaseNftUri(RawEncoding(u))
    /\ (cin.fn = "decodeLeaseNftUri" /\ Ended) =>
           \A u \in LeaseUris :
               (Len(u) >= LeaseUriLen /\ cin.hexUri = RawEncoding(u)) =>
                   /\ cout.status = "returned"
                   /\ cout = decodeLeaseTokenUri(TextEncoding(u))

\* A base64 URI whose text ends in padding has been decoded to a descriptor
\* with a nonzero index.
C15_Witness ==
    /\ cin.fn = "decodeLeaseTokenUri"
    /\ Len(cin.hexUri) >= 2
    /\ cin.hexUri[Len(cin.hexUri) - 1] = 3 /\ cin.hexUri[Len(cin.hexUri)] = 13
    /\ cout.status = "returned"
    /\ cout.value.leaseIndex # 0

\* The URI bytes the call's hexUri argument encodes.
EncodedUris ==
    IF cin.fn = "decodeLeaseNftUri" THEN {u \in LeaseUris : cin.hexUri = RawEncoding(u)}
    ELSE IF cin.fn = "decodeLeaseTokenUri" THEN {u \in LeaseUris : cin.hexUri = TextEncoding(u)}
    ELSE {}

\* ------------------------------------------------------------------------
\* C16: the decoded halfTos of a lease URI is exactly the 16 bytes that
\* follow the lease index: bytes [prefixLen + 2, prefixLen + 18).
\* ------------------------------------------------------------------------
C16_HalfHashIsSixteenBytesAfterIndex ==
    (Ended /\ cout.status = "returned") =>
        \A u \in EncodedUris :
            LET prefixLen == Len(LEASE_TOKEN_PREFIX_HEX) \div 2 IN
            cout.value.halfTos = SubSeq(u, prefixLen + 2 + 1, prefixLen + 18)

\* The bytes a hex string denotes.
BytesOf(hex) == [k \in 1..(Len(hex) \div 2) |-> 16 * hex[2 * k - 1] + hex[2 * k]]

\* ------------------------------------------------------------------------
\* C17: generateHostAddrStateKey(A) is a 32-byte key: 'EVR', kind tag 3,
\* 8 zero bytes, the 20-byte account id of A.  Decoding the key classifies
\* it as host address and recovers A, and the key derived from the
\* recovered address is the same key.
\* ------------------------------------------------------------------------
C17_HostAddrKeyRoundTrip ==
    (cin.fn = "generateHostAddrStateKey" /\ Ended) =>
        /\ cout.status = "returned"
        /\ LET key == BytesOf(cout.value)
               byKey == decodeStateKey(key)
               byData == decodeStateData(key, DataBuf(HostMandatoryLen, 1))
           IN /\ Len(key) = 32
              /\ SubSeq(key, 1, 3) = <<69, 86, 82>>
              /\ key[4] = 3
              /\ \A k \in 5..12 : key[k] = 0
              /\ SubSeq(key, 13, 32) = cin.address.classicAddress
              /\ byKey.status = "returned" /\ byKey.value.type = "hostAddr"
              /\ byData.status = "returned" /\ byData.value.type = "hostAddr"
              /\ byData.value.address = cin.address
              /\ generateHostAddrStateKey(byData.value.address) = cout.value

\* The key of an address whose account id starts with a nonzero byte has
\* been generated.
C17_Witness ==
    /\ cin.fn = "generateHostAddrStateKey"
    /\ cin.address.classicAddress[1] # 0
    /\ cout.status = "returned"

\* The id the call returned has zero bytes 0 to 3 and the given byte 4, and
\* getCandidateType reads that discriminant back from it.
ReturnedIdOfType(type) ==
    /\ cout.status = "returned"
    /\ LET id == BytesOf(cout.value)
       IN /\ Len(id) = 32
          /\ \A k \in 1..4 : id[k] = 0
          /\ id[5] = type
    /\ getCandidateType(cout.value) = type

\* ------------------------------------------------------------------------
\* C18: getCandidateType of an id made by getNewHookCandidateId,
\* getPilotedModeCandidateId or getDudHostCandidateId is the NewHook,
\* PilotedMode or DudHost discriminant, for every content buffer and host
\* address: the content never overwrites byte 4, and bytes 0 to 3 are zero.
\* ------------------------------------------------------------------------
C18_CandidateTypeRecovered ==
    /\ (cin.fn = "getNewHookCandidateId" /\ Ended) => ReturnedIdOfType(CandidateTypes.NewHook)
    /\ (cin.fn = "getPilotedModeCandidateId" /\ Ended) => ReturnedIdOfType(CandidateTypes.PilotedMode)
    /\ (cin.fn = "getDudHostCandidateId" /\ Ended) => ReturnedIdOfType(CandidateTypes.DudHost)
    /\ (cin.fn = "getCandidateType" /\ Ended) =>
           /\ cout.status = "returned"
           /\ cin.candidateId \in {getNewHookCandidateId(DataBuf(len, 1)) : len \in {0, 32, 96}}
                  => cout.value = CandidateTypes.NewHook
           /\ cin.candidateId = getPilotedModeCandidateId
                  => cout.value = CandidateTypes.PilotedMode
           /\ cin.candidateId \in {getDudHostCandidateId(a) : a \in Addresses}
                  => cout.value = CandidateTypes.DudHost

\* The type of a dud host candidate id has been read.
C18_Witness ==
    /\ cin.fn = "getCandidateType"
    /\ cin.candidateId \in {getDudHostCandidateId(a) : a \in Addresses}
    /\ cout.status = "returned"
    /\ cout.value = CandidateTypes.DudHost

\* The call decodes a complete candidate-id record; its status byte.
DecodesCandidateId ==
    \/ cin.fn = "decodeCandidateIdState"
    \/ EntityTag = 6 /\ DataLen >= MandatoryLen(6)
StatusByte ==
    IF cin.fn = "decodeStateData" THEN cin.stateData[CANDIDATE_STATUS_OFFSET + 1]
    ELSE cin.stateDataBuf[CANDIDATE_STATUS_OFFSET + 1]
ExpectedStatus(byte) ==
    CASE byte = 0 -> "supported"
      [] byte = 1 -> "elected"
      [] byte = 2 -> "vetoed"
      [] byte = 3 -> "expired"
      [] OTHER -> "rejected"

\* ------------------------------------------------------------------------
\* C19: the status byte of a candidate-id record decodes 0, 1, 2, 3 to
\* 'supported', 'elected', 'vetoed', 'expired', and every other value
\* (4 to 255) to 'rejected', without an error.
\* ------------------------------------------------------------------------
C19_CandidateStatusMapping ==
    (DecodesCandidateId /\ Ended) =>
        /\ cout.status = "returned"
        /\ cout.value.status = ExpectedStatus(StatusByte)

\* A record with the highest status byte has been decoded as rejected.
C19_Witness ==
    /\ cin.fn = "decodeCandidateIdState"
    /\ StatusByte = 255
    /\ cout.status = "returned"
    /\ cout.value.status = "rejected"

\* The moment type the claim assigns to a buffer with the type byte at offset.
ExpectedMomentType(buf, offset) ==
    IF Len(buf) <= offset \/ buf[offset + 1] = 0 THEN "ledger" ELSE "timestamp"

\* ------------------------------------------------------------------------
\* C20: in moment-base-info and moment-transit-info records the moment type
\* is 'ledger' when the type byte is 0 or the buffer is too short to hold
\* it, 'timestamp' for every other byte; a buffer that holds the fields
\* before the type byte but not the type byte still decodes.
\* ------------------------------------------------------------------------
C20_MomentTypeDecoding ==
    Ended =>
        /\ (/\ DecodesKey("MOMENT_BASE_INFO")
            /\ DataLen = MOMENT_AT_TRANSITION_OFFSET \/ DataLen >= MOMENT_TYPE_OFFSET)
               => /\ cout.status = "returned"
                  /\ cout.value.value.momentType = ExpectedMomentType(cin.stateData, MOMENT_TYPE_OFFSET)
        /\ (DecodesKey("MOMENT_TRANSIT_INFO") /\ DataLen >= TRANSIT_MOMENT_TYPE_OFFSET)
               => /\ cout.status = "returned"
                  /\ cout.value.value.momentType
                         = ExpectedMomentType(cin.stateData, TRANSIT_MOMENT_TYPE_OFFSET)

\* decodeStateData finds a kind for the key: whatever the data, it does not
\* end with the error of an unknown key.
RecognizedByData(stateKey) ==
    \E d \in DataBufs : decodeStateData(stateKey, d) # Thrown(ValidationError)

\* ------------------------------------------------------------------------
\* C21: decodeStateKey(key) succeeds exactly when decodeStateData(key, data)
\* recognizes the key, and then both report the same type, for every key,
\* the well-known keys such as HOST_HEARTBEAT_FREQ included.
\* ------------------------------------------------------------------------
C21_KeyAndDataClassificationAgree ==
    /\ (cin.fn = "decodeStateKey" /\ Ended) =>
           /\ cout.status = "returned" <=> RecognizedByData(cin.stateKey)
           /\ \A d \in DataBufs :
                  LET byData == decodeStateData(cin.stateKey, d) IN
                  byData.status = "returned" =>
                      cout.status = "returned" /\ cout.value.type = byData.value.type
    /\ (cin.fn = "decodeStateData" /\ Ended /\ cout.status = "returned") =>
           LET byKey == decodeStateKey(cin.stateKey) IN
           byKey.status = "returned" /\ byKey.value.type = cout.value.type

\* ------------------------------------------------------------------------
\* TenantClient.extendLease: the request is submitted, then the response is
\* watched.  The results of the collaborators are drawn per call.
\* ------------------------------------------------------------------------

NO_TOKEN == "NO_TOKEN"
TRANSACTION_FAILURE == "TRANSACTION_FAILURE"

\* this.xrplApi.ledgerIndex at the time of the call.
LedgerIndexes == {JsNumber(7)}

\* uriToken.URI of the token found: a complete lease URI or an empty one.
TokenUris == {TextEncoding(LeaseUriBytes(LeaseUriLen, 0)), TextEncoding(<<>>)}

\* The result of extendLeaseSubmit: a transaction, or a rejection.
SubmitResults == {[id |-> id] : id \in TxIds} \cup {[id |-> UNDEF]}

\* The arguments watchExtendResponse(tx, options) receives from the call
\* this.watchExtendResponse(tx, minLedgerIndex, options): they are bound by
\* position, the third one is not read.
WatchOptionsArg(args) == args[2]

\* extendLease(hostAddress, moments, instanceName, options) up to the call
\* of watchExtendResponse.
ExtendLeaseCall(options, found, uri, minLedgerIndex, submitted) ==
    /\ pc = "idle"
    /\ cin = NoCall
    /\ cin' = [fn |-> "extendLease", options |-> options, found |-> found,
               uri |-> uri, submitted |-> submitted]
    /\ IF ~found
       THEN /\ cout' = Thrown([error |-> EXTEND_ERR, reason |-> NO_TOKEN])
            /\ UNCHANGED watchVars
       ELSE IF decodeLeaseTokenUri(uri).status = "thrown"
       THEN /\ unhandled' = decodeLeaseTokenUri(uri).error.type
            /\ cout' = cout
            /\ UNCHANGED <<pc, kind, tx, failTimeout, rejected, relevantTx, txLen, i, res,
                           promise, settleCalls, outstanding, polls>>
       ELSE IF submitted.id = UNDEF
       THEN /\ cout' = Thrown([error |-> EXTEND_ERR, reason |-> TRANSACTION_FAILURE])
            /\ UNCHANGED watchVars
       ELSE /\ StartWatch("extend", submitted.id,
                          WatchOptionsArg(<<submitted, minLedgerIndex, options>>))
            /\ cout' = cout

\* The promise of watchExtendResponse settles: extendLease resolves or
\* rejects with the same value.
ExtendLeaseSettle ==
    /\ cin.fn = "extendLease"
    /\ cout = NoOutcome
    /\ promise.status # "pending"
    /\ cout' = IF promise.status = "resolved" THEN Returned(promise.value) ELSE Thrown(promise.value)
    /\ UNCHANGED <<watchVars, cin>>

\* ------------------------------------------------------------------------
\* TenantClient.acquireLeaseSubmit.  The results of getLeaseHost,
\* getLeaseOffers and getMessageKey are drawn per call.
\* ------------------------------------------------------------------------

\* A value that is no offer (null or undefined).
NoOffer == [index |-> UNDEF]

\* The lease offers of the host: null, or a list of offers.
OfferLists ==
    {[isNull |-> TRUE, items |-> <<>>]} \cup
    {[isNull |-> FALSE, items |-> s] :
        s \in {<<>>, <<[index |-> "OA"]>>, <<[index |-> "OA"], [index |-> "OB"]>>,
               <<[index |-> "OB"], [index |-> "OA"]>>}}

\* options.leaseOfferIndex of the call; UNDEF when the option is not given.
LeaseOfferIndexes == {UNDEF, "OA", "OB", "OC"}

\* The results of getLeaseHost: the host account, or one of its errors.
LeaseHosts ==
    {Returned("host"), Thrown([reason |-> "HOST_INVALID"]), Thrown([reason |-> "HOST_INACTIVE"])}

\* The arrow function uriOffer => { uriOffer.index === selectedOfferIndex }:
\* its body is a block that evaluates the comparison and has no return
\* statement, so every call returns undefined.
OfferFindCallback(uriOffer, selectedOfferIndex) ==
    LET compared == (uriOffer.index = selectedOfferIndex) IN UNDEF

\* uriTokenOffers.find(callback): the first offer for which the callback
\* returns a truthy value, undefined when there is none.
FindOffer(items, selectedOfferIndex) ==
    LET hits == {k \in 1..Len(items) :
                    OfferFindCallback(items[k], selectedOfferIndex) \notin {UNDEF, "false"}}
    IN IF hits = {} THEN NoOffer
       ELSE items[CHOOSE k \in hits : \A h \in hits : k <= h]

acquireLeaseSubmit(hostAcc, options, uriTokenOffers, encKey) ==
    IF hostAcc.status = "thrown" THEN hostAcc
    ELSE
    LET selectedOfferIndex == options.leaseOfferIndex
        buyUriOffer ==
            IF uriTokenOffers.isNull THEN NoOffer
            ELSE IF selectedOfferIndex = UNDEF
            THEN (IF uriTokenOffers.items = <<>> THEN NoOffer ELSE uriTokenOffers.items[1])
            ELSE FindOffer(uriTokenOffers.items, selectedOfferIndex)
    IN IF buyUriOffer = NoOffer
       THEN Thrown([reason |-> "NO_OFFER", error |-> "No offers available."])
       ELSE IF encKey = UNDEF
       THEN Thrown([reason |-> "INTERNAL_ERR", error |-> "Host encryption key not set."])
       ELSE Returned([buyURIToken |-> buyUriOffer])

AcquireLeaseSubmitCall(hostAcc, options, uriTokenOffers, encKey) ==
    /\ pc = "idle"
    /\ cin = NoCall
    /\ cin' = [fn |-> "acquireLeaseSubmit", hostAcc |-> hostAcc, options |-> options,
               uriTokenOffers |-> uriTokenOffers, encKey |-> encKey]
    /\ cout' = acquireLeaseSubmit(hostAcc, options, uriTokenOffers, encKey)
    /\ UNCHANGED watchVars

TenantNext ==
    \/ \E hostAcc \in LeaseHosts, selected \in LeaseOfferIndexes,
          offers \in OfferLists, encKey \in {UNDEF, "KEY"} :
           AcquireLeaseSubmitCall(hostAcc, [leaseOfferIndex |-> selected], offers, encKey)
    \/ \E t \in TimeoutOptions, found \in BOOLEAN, uri \in TokenUris,
          l \in LedgerIndexes, submitted \in SubmitResults :
           ExtendLeaseCall([timeout |-> t], found, uri, l, submitted)
    \/ ExtendLeaseSettle
    \/ \E n \in 0..MaxTx : QueryReturn(n)
    \/ \E err \in QueryErrors : QueryFail(err)
    \/ \E ev \in Events : ExtractReturn(ev)
    \/ SleepDone
    \/ FireTimeout

TenantSpec == Init /\ [][TenantNext]_vars

\* ------------------------------------------------------------------------
\* C22: extendLease called with options.timeout = T watches the extend
\* response with deadline T, not the default of 60000 ms.
\* ------------------------------------------------------------------------
C22_ExtendLeaseHonoursTimeout ==
    (cin.fn = "extendLease" /\ failTimeout.state # "none" /\ cin.options.timeout # 0)
        => failTimeout.delay = cin.options.timeout

\* The offers of the drawn call whose index is the one asked for.
OffersAskedFor ==
    {k \in 1..Len(cin.uriTokenOffers.items) :
        cin.uriTokenOffers.items[k].index = cin.options.leaseOfferIndex}

\* ------------------------------------------------------------------------
\* C23: acquireLeaseSubmit called with options.leaseOfferIndex = I buys the
\* offer whose index is I when the host's lease offers contain one, and
\* fails with NO_OFFER only when they contain none.
\* ------------------------------------------------------------------------
C23_SelectedOfferIsBought ==
    (/\ cin.fn = "acquireLeaseSubmit"
     /\ cin.options.leaseOfferIndex # UNDEF
     /\ cin.hostAcc.status = "returned"
     /\ cin.encKey # UNDEF) =>
        /\ OffersAskedFor # {} =>
               /\ cout.status = "returned"
               /\ cout.value.buyURIToken.index = cin.options.leaseOfferIndex
        /\ (cout.status = "thrown" /\ cout.error.reason = "NO_OFFER") => OffersAskedFor = {}

\* ------------------------------------------------------------------------
\* C24: once a watch has decoded a matching event before its deadline fired,
\* the deadline is cancelled, the outcome can no longer be TimedOut, and the
\* promise is settled as MatchedSuccess or MatchedError only when the
\* inter-poll delay that follows the match has ended.
\* ------------------------------------------------------------------------
C24_MatchBeatsDeadline ==
    [](ObservedBeforeDeadline =>
          /\ failTimeout.state = "cleared"
          /\ pc = "sleep" => Pending
          /\ pc = "done" => (MatchedSuccess \/ MatchedError)
          /\ []~TimedOut
          /\ <>(MatchedSuccess \/ MatchedError))

\* A match found on a later poll was delivered after the delay.
C24_Witness ==
    /\ Correlates(kind, res, tx.id)
    /\ failTimeout.state = "cleared"
    /\ pc = "done"
    /\ polls >= 2
    /\ MatchedSuccess \/ MatchedError

\* ------------------------------------------------------------------------
\* C25: after the deadline timer of a watch has fired, the invocation issues
\* no new getAccountTrx query (only the one in flight may complete), and the
\* outcome stays TimedOut, also when a matching event is decoded from the
\* results of that query.
\* ------------------------------------------------------------------------
DeadlineFired == failTimeout.state = "fired"

C25_NoPollAfterDeadline ==
    /\ [][DeadlineFired =>
            /\ outstanding' <= outstanding
            /\ pc' = "query" => pc = "query"
            /\ promise' = promise]_vars
    /\ [](DeadlineFired => TimedOut)

\* The deadline fired while a query was in flight, the query returned a
\* matching event, and the watch ended timed out.
C25_Witness ==
    /\ DeadlineFired
    /\ Correlates(kind, res, tx.id)
    /\ relevantTx = res
    /\ polls = 1
    /\ outstanding = 0
    /\ pc = "done"
    /\ TimedOut

====
